---- MODULE Spec2Model ----
(***************************************************************************)
(* Model of the befrust gate-level logic simulator: the signal algebra     *)
(* (src/src/lib.rs), the pin/node compute graph and its run loop           *)
(* (src/src/graph.rs), the primitive gates (src/src/gate.rs) and the T     *)
(* flip-flop, the 74193 counter, the chained counters and the RAM          *)
(* (src/src/ic.rs).                                                        *)
(*                                                                         *)
(* Conventions.  Pin ids are positions in pin_states; the model counts     *)
(* them from 1 where the code counts from 0, so a part's half-open range   *)
(* [start, end) holds the pins start .. end-1.  Node ids are the code's    *)
(* (next_node starts at 0).  pin_names is debugging text and is left out.  *)
(* The 64-bit DefaultHasher fingerprint of run() is modelled as the hashed *)
(* value itself (pin_states and nodes): hash collisions are not modelled.  *)
(*                                                                         *)
(* The specifications.  Spec: any interleaving of the calls of the Graph   *)
(* interface on a graph of at most MaxPins pins, the calls that panic      *)
(* included (a panic ends the behaviour).  SpecGates: a circuit of sources *)
(* and gates is wired (each gate input to one driver), then run, its       *)
(* sources set and run again.  LiveGates: the same, smaller, with the loop *)
(* of run() never abandoned.  SpecPulse: a circuit of not gates and        *)
(* tristate buffers, run and pulsed at any pin.  SpecTff: a T flip-flop    *)
(* (src/src/ic.rs) and sources.  SpecRing: circuits of not gates alone.    *)
(* SpecConnect: pins and connect alone.  SpecLoad, SpecCount: the netlist  *)
(* of the 74193 wired as in its tests, its pins set or pulsed and the      *)
(* circuit run, each call taken as a whole.  SpecChain: the 8-bit and the  *)
(* 16-bit counter, cleared and pulsed.  SpecRam: the RAM with pins on its  *)
(* control, data and address pins, set between runs; SpecRamErr: the same  *)
(* with Error signals on a data and an address pin.  SpecBus: a bus buffer *)
(* fed by output pins, ticked.                                             *)
(*                                                                         *)
(* The vector owned by the updater closure of the RAM is the field ram of  *)
(* its entry in parts; it holds the words stored so far.                   *)
(***************************************************************************)
EXTENDS Integers, Sequences, FiniteSets, TLC

\* ------------------------------------------------------------------ bounds
MaxPins == 3
MaxGatePins == 5
MaxLivePins == 4
MaxTicks == 24
MaxConnPins == 5
MaxPulsePins == 5
MaxTffPins == 8
MaxRingPins == 6
MaxBusWidth == 3
MaxTriWidth == 2
MaxUp8 == 16
MaxDown8 == 7
MaxUp16 == 1
MaxDown16 == 2

\* ---------------------------------------------------------- signal algebra
Signal == {"Off", "Low", "High", "Error"}

\* Variant of not: an open input inverts to Error.
not_off_error(s) ==
    CASE s = "High" -> "Low"
      [] s = "Low" -> "High"
      [] OTHER -> "Error"

not(s) ==
    CASE s = "High" -> "Low"
      [] s = "Low" -> "High"
      [] s = "Off" -> "Off"
      [] OTHER -> "Error"

bitand(a, b) ==
    IF a = "Error" \/ b = "Error" THEN "Error"
    ELSE IF a = "Off" /\ b = "Off" THEN "Off"
    ELSE IF a = "High" /\ b = "High" THEN "High"
    ELSE "Low"

\* Variant of bitor: only an open left operand gives way to the other.
bitor_lhs_off(a, b) ==
    IF a = "Error" \/ b = "Error" THEN "Error"
    ELSE IF a = "Off" THEN b
    ELSE IF a = "Low" /\ b = "Low" THEN "Low"
    ELSE "High"

bitor(a, b) ==
    IF a = "Error" \/ b = "Error" THEN "Error"
    ELSE IF a = "Off" THEN b
    ELSE IF b = "Off" THEN a
    ELSE IF a = "Low" /\ b = "Low" THEN "Low"
    ELSE "High"

\* Variant of bitxor: an open operand beside High gives Low.
bitxor_off_low(a, b) ==
    IF a = "Error" \/ b = "Error" THEN "Error"
    ELSE IF a = "Off" /\ b = "Off" THEN "Off"
    ELSE IF {a, b} = {"High", "Low"} THEN "High"
    ELSE "Low"

bitxor(a, b) ==
    IF a = "Error" \/ b = "Error" THEN "Error"
    ELSE IF a = "Off" /\ b = "Off" THEN "Off"
    ELSE IF (a = "High" /\ b # "High") \/ (b = "High" /\ a # "High") THEN "High"
    ELSE "Low"

is_high(s) == s = "High"

is_lowish(s) == s \in {"Low", "Off"}

\* --------------------------------------------------------------- pin state
HiZ == [k |-> "HiZ", s |-> "Off"]

Input(s) == [k |-> "Input", s |-> s]

Output(s) == [k |-> "Output", s |-> s]

INPUT == Input("Off")

OUTPUT == Output("Error")

PinState == {HiZ} \cup {Input(s) : s \in Signal} \cup {Output(s) : s \in Signal}

sig(state) == IF state.k = "HiZ" THEN "Off" ELSE state.s

\* ------------------------------------------------------------------- state
VARIABLES
    pin_states,     \* GraphImpl.pin_states
    nodes,          \* GraphImpl.nodes: node id -> [pin_ids, signal]
    next_node,      \* GraphImpl.next_node
    pin_nodes,      \* GraphImpl.pin_nodes
    parts,          \* GraphImpl.parts: [kind, width, start, end]
    pc,             \* "idle", "ticked" (tick returned), "run" (in run's loop),
                    \* "done" (run returned), "pulsed" (pulse_output
                    \* returned), or the call that panicked:
                    \* "connect_panic", "set_output_panic",
                    \* "flip_output_panic", "update_panic"
    stats,          \* RunStats of the run in progress / just returned
    state_hashes,   \* run's local map fingerprint -> ticks
    stop,           \* why the last run returned: "none", "steady", "cycle"
    phase,          \* "built": no tick since construction; "first": in or
                    \* after a run started from the built state, nothing
                    \* else done since; "later": anything else
    pulse           \* the call of pulse_output in progress or just returned:
                    \* its pin, the pin's state at the call, its position
                    \* (step 1: in the first run, 2: in the second run,
                    \* 3: returned) and what its two runs returned; step 4:
                    \* flash_output and the run() after it have returned

vars == <<pin_states, nodes, next_node, pin_nodes, parts, pc, stats,
          state_hashes, stop, phase, pulse>>

\* ------------------------------------------------------------------ helpers
Max(S) == CHOOSE x \in S : \A y \in S : x >= y

\* The value of v, worked out in full.
Force(v) == CHOOSE y \in {v} : y = y

\* F applied to the value of v, v evaluated once.
Bind(v, F(_)) == CHOOSE r \in {F(x) : x \in {v}} : TRUE

\* A number of the form 2^k - 1, at least hi, that no member of S exceeds.
RECURSIVE Upper(_, _)
Upper(S, hi) == IF \A x \in S : x <= hi THEN hi ELSE Upper(S, 2 * hi + 1)

\* The members of a set of a few numbers in ascending order.
RECURSIVE SortSmall(_)
SortSmall(S) ==
    IF S = {} THEN <<>>
    ELSE Bind(CHOOSE x \in S : \A y \in S : x <= y, LAMBDA m :
         Bind(S \ {m}, LAMBDA rest : <<m>> \o SortSmall(rest)))

\* The members of S, all within lo .. hi, in ascending order.
RECURSIVE SortIn(_, _, _)
SortIn(S, lo, hi) ==
    IF Cardinality(S) <= 8 THEN SortSmall(S)
    ELSE Bind((lo + hi) \div 2, LAMBDA mid :
         Bind({x \in S : x <= mid}, LAMBDA low :
         Bind(S \ low, LAMBDA high :
             SortIn(low, lo, mid) \o SortIn(high, mid + 1, hi))))

\* The members of a set of natural numbers in ascending order (BTreeSet and
\* BTreeMap iteration).
SetToSeq(S) ==
    Bind(S, LAMBDA T :
        IF Cardinality(T) <= 8 THEN SortSmall(T)
        ELSE Bind(Upper(T, 0), LAMBDA hi : SortIn(T, 0, hi)))

Pins == 1 .. Len(pin_states)

NodeIds == DOMAIN nodes

PartIds == 1 .. Len(parts)

\* Pins that belong to no part: made by new_output, new_input or new_pins.
SourcePins ==
    {p \in Pins : \A i \in PartIds : p < parts[i].start \/ p >= parts[i].end}

NoStats == [ticks |-> 0, updates |-> 0, cycle |-> 0]

NoHashes == [h \in {} |-> 0]

NoPulse == [pin |-> 0, step |-> 0, before |-> HiZ,
            first |-> NoStats, second |-> NoStats]

\* --------------------------------------------------------------- the parts
UnaryKinds == {"not", "buffer"}

BinaryKinds == {"and", "nand", "or", "nor", "xor"}

\* Initial pin states of a part (the states array handed to new_part).
InitialStates(kind, width) ==
    CASE kind \in UnaryKinds -> <<INPUT, OUTPUT>>
      [] kind \in BinaryKinds -> <<INPUT, INPUT, OUTPUT>>
      [] kind = "tristate" ->
            [i \in 1 .. 2 * width + 1 |-> IF i <= width THEN HiZ ELSE INPUT]
      [] kind = "tff" ->
            <<INPUT, INPUT, INPUT, Output("Low"), Output("High"), INPUT>>
      [] kind = "nand_nary" ->
            [i \in 1 .. 1 + width |-> IF i = 1 THEN OUTPUT ELSE INPUT]
      [] kind = "bus_buffer" ->
            [i \in 1 .. 2 * width |-> IF i <= width THEN OUTPUT ELSE INPUT]

\* BusBuffer / BusTristate: what one output becomes for one input state.
bus_out(a) ==
    CASE a.k = "HiZ" -> HiZ
      [] a.k = "Input" -> Output(a.s)
      [] OTHER -> Output("Error")

\* Variant of not_gate: the output follows the input.
not_gate_as_buffer(pins) == [pins EXCEPT ![2] = Output(sig(pins[1]))]

\* The updater closures of the gates, each applied to the part's own slice
\* of pin_states (UnaryGate: INPUT, OUTPUT; BinaryGate: INPUT_A, INPUT_B,
\* OUTPUT).
not_gate(pins) == [pins EXCEPT ![2] = Output(not(sig(pins[1])))]

buffer(pins) == [pins EXCEPT ![2] = Output(sig(pins[1]))]

\* Variant of and_gate: the output follows the first input alone.
and_gate_first(pins) == [pins EXCEPT ![3] = Output(sig(pins[1]))]

and_gate(pins) == [pins EXCEPT ![3] = Output(bitand(sig(pins[1]), sig(pins[2])))]

nand_gate(pins) ==
    [pins EXCEPT ![3] = Output(not(bitand(sig(pins[1]), sig(pins[2]))))]

or_gate(pins) == [pins EXCEPT ![3] = Output(bitor(sig(pins[1]), sig(pins[2])))]

nor_gate(pins) ==
    [pins EXCEPT ![3] = Output(not(bitor(sig(pins[1]), sig(pins[2]))))]

xor_gate(pins) == [pins EXCEPT ![3] = Output(bitxor(sig(pins[1]), sig(pins[2])))]

\* nand_nary: the fold of the inputs pins[INPUTS..] with &, from the first.
RECURSIVE and_fold(_, _, _)
and_fold(pins, i, result) ==
    IF i > Len(pins) THEN result
    ELSE and_fold(pins, i + 1, bitand(result, sig(pins[i])))

\* nand_nary: NaryGate with OUTPUT at index 0 and the inputs after it.
nand_nary(pins) ==
    [pins EXCEPT ![1] = Output(not(and_fold(pins, 3, sig(pins[2]))))]

\* Variant of BusBuffer: every output follows the first input.
BusBuffer_first(width, pins) ==
    [i \in DOMAIN pins |->
        IF i <= width THEN bus_out(pins[width + 1]) ELSE pins[i]]

\* BusBuffer::new: width outputs, then width inputs.
BusBuffer(width, pins) ==
    [i \in DOMAIN pins |->
        IF i <= width THEN bus_out(pins[width + i]) ELSE pins[i]]

\* Variant of BusTristate: en is inverted, the outputs are enabled when it
\* is Low.
BusTristate_en_inv(width, pins) ==
    IF is_high(not(sig(pins[2 * width + 1])))
    THEN [i \in DOMAIN pins |->
            IF i <= width THEN bus_out(pins[width + i]) ELSE pins[i]]
    ELSE [i \in DOMAIN pins |-> IF i <= width THEN HiZ ELSE pins[i]]

\* Variant of BusTristate: the outputs are left as they are when en is not
\* High.
BusTristate_keep(width, pins) ==
    IF is_high(sig(pins[2 * width + 1]))
    THEN [i \in DOMAIN pins |->
            IF i <= width THEN bus_out(pins[width + i]) ELSE pins[i]]
    ELSE pins

\* BusTristate::new: width outputs, width inputs, then en.
BusTristate(width, pins) ==
    IF is_high(sig(pins[2 * width + 1]))
    THEN [i \in DOMAIN pins |->
            IF i <= width THEN bus_out(pins[width + i]) ELSE pins[i]]
    ELSE [i \in DOMAIN pins |-> IF i <= width THEN HiZ ELSE pins[i]]

\* TFlipFlop: the indices of its pins in its slice, counted from 0 as in the
\* code (pins[k + 1] is the code's pins[k]).
TOGGLE == 0

SET == 1

RESET == 2

OUTPUT_Q == 3

OUT_INV == 4

TOGGLE_PREV == 5

\* Variant of TFlipFlop: the inverted output is not written.
TFlipFlop_keep_inv(pins) ==
    LET new_q ==
            IF is_high(sig(pins[RESET + 1])) THEN "Low"
            ELSE IF is_high(sig(pins[SET + 1])) THEN "High"
            ELSE IF is_high(sig(pins[TOGGLE + 1])) /\ is_lowish(sig(pins[TOGGLE_PREV + 1]))
                 THEN sig(pins[OUT_INV + 1])
                 ELSE sig(pins[OUTPUT_Q + 1])
    IN [pins EXCEPT ![OUTPUT_Q + 1] = Output(new_q),
                    ![TOGGLE_PREV + 1] = pins[TOGGLE + 1]]

\* Variant of TFlipFlop: the previous toggle state is not recorded.
TFlipFlop_level(pins) ==
    LET new_q ==
            IF is_high(sig(pins[RESET + 1])) THEN "Low"
            ELSE IF is_high(sig(pins[SET + 1])) THEN "High"
            ELSE IF is_high(sig(pins[TOGGLE + 1])) /\ is_lowish(sig(pins[TOGGLE_PREV + 1]))
                 THEN sig(pins[OUT_INV + 1])
                 ELSE sig(pins[OUTPUT_Q + 1])
    IN [pins EXCEPT ![OUTPUT_Q + 1] = Output(new_q),
                    ![OUT_INV + 1] = Output(not(new_q))]

\* Variant of TFlipFlop: Set is looked at before Reset.
TFlipFlop_set_first(pins) ==
    LET new_q ==
            IF is_high(sig(pins[SET + 1])) THEN "High"
            ELSE IF is_high(sig(pins[RESET + 1])) THEN "Low"
            ELSE IF is_high(sig(pins[TOGGLE + 1])) /\ is_lowish(sig(pins[TOGGLE_PREV + 1]))
                 THEN sig(pins[OUT_INV + 1])
                 ELSE sig(pins[OUTPUT_Q + 1])
    IN [pins EXCEPT ![OUTPUT_Q + 1] = Output(new_q),
                    ![OUT_INV + 1] = Output(not(new_q)),
                    ![TOGGLE_PREV + 1] = pins[TOGGLE + 1]]

\* TFlipFlop::new: the updater closure of the T flip-flop.
TFlipFlop(pins) ==
    LET new_q ==
            IF is_high(sig(pins[RESET + 1])) THEN "Low"
            ELSE IF is_high(sig(pins[SET + 1])) THEN "High"
            ELSE IF is_high(sig(pins[TOGGLE + 1])) /\ is_lowish(sig(pins[TOGGLE_PREV + 1]))
                 THEN sig(pins[OUT_INV + 1])
                 ELSE sig(pins[OUTPUT_Q + 1])
    IN [pins EXCEPT ![OUTPUT_Q + 1] = Output(new_q),
                    ![OUT_INV + 1] = Output(not(new_q)),
                    ![TOGGLE_PREV + 1] = pins[TOGGLE + 1]]

\* The boxed updater stored in parts, chosen by the part's kind.
Updater(kind, width, pins) ==
    CASE kind = "not" -> not_gate(pins)
      [] kind = "buffer" -> buffer(pins)
      [] kind = "and" -> and_gate(pins)
      [] kind = "nand" -> nand_gate(pins)
      [] kind = "or" -> or_gate(pins)
      [] kind = "nor" -> nor_gate(pins)
      [] kind = "xor" -> xor_gate(pins)
      [] kind = "tristate" -> BusTristate(width, pins)
      [] kind = "tff" -> TFlipFlop(pins)
      [] kind = "nand_nary" -> nand_nary(pins)
      [] kind = "bus_buffer" -> BusBuffer(width, pins)

\* ---------------------------------------------------------------- the graph
\* GraphImpl::update_parts: every part, in creation order, on its own slice.
\* One part's updater applied to its slice pin_states[start..end].
part_step(ps, p) ==
    LET slice == SubSeq(ps, p.start, p.end - 1)
        new == Updater(p.kind, p.width, slice)
    IN SubSeq(ps, 1, p.start - 1) \o new \o SubSeq(ps, p.end, Len(ps))

\* The parts lo .. hi one after the other (the range is halved to keep the
\* evaluation shallow; the order is the code's).
RECURSIVE update_parts_range(_, _, _, _)
update_parts_range(ps, pts, lo, hi) ==
    IF lo > hi THEN ps
    ELSE IF lo = hi THEN part_step(ps, pts[lo])
    ELSE Bind(update_parts_range(ps, pts, lo, (lo + hi) \div 2),
              LAMBDA ps2 : update_parts_range(ps2, pts, (lo + hi) \div 2 + 1, hi))

update_parts_from(ps, pts, i) == update_parts_range(ps, pts, i, Len(pts))

update_parts(ps, pts) == update_parts_from(ps, pts, 1)

\* The scan of one node's member pins (inner loop of update_nodes).
\* Variant of scan_pins: a further output replaces the signal of the first.
RECURSIVE scan_pins_last_output(_, _, _, _, _)
scan_pins_last_output(pins, i, ps, new_signal, out_count) ==
    IF i > Len(pins) THEN new_signal
    ELSE IF ps[pins[i]].k # "Output"
         THEN scan_pins_last_output(pins, i + 1, ps, new_signal, out_count)
         ELSE scan_pins_last_output(pins, i + 1, ps, ps[pins[i]].s, out_count + 1)

RECURSIVE scan_pins(_, _, _, _, _)
scan_pins(pins, i, ps, new_signal, out_count) ==
    IF i > Len(pins) THEN new_signal
    ELSE IF ps[pins[i]].k # "Output"
         THEN scan_pins(pins, i + 1, ps, new_signal, out_count)
         ELSE IF out_count > 0
              THEN scan_pins(pins, i + 1, ps, "Error", out_count + 1)
              ELSE scan_pins(pins, i + 1, ps, ps[pins[i]].s, out_count + 1)

\* The signal one node resolves to: the scan starts from the cached signal.
resolve(node, ps) ==
    Bind(SetToSeq(node.pin_ids),
         LAMBDA pins : scan_pins(pins, 1, ps, node.signal, 0))

\* The signal written to the pins among pins[i ..] that are in Input state.
RECURSIVE set_inputs(_, _, _, _)
set_inputs(ps, pins, i, signal) ==
    IF i > Len(pins) THEN ps
    ELSE Bind(IF ps[pins[i]].k = "Input"
              THEN [ps EXCEPT ![pins[i]] = Input(signal)] ELSE ps,
              LAMBDA ps2 : set_inputs(ps2, pins, i + 1, signal))

\* Variant of node_step: a node that changes to Low is not counted.
node_step_low_uncounted(acc, id) ==
    LET node == acc.nodes[id]
        new_signal == resolve(node, acc.pin_states)
    IN IF new_signal # node.signal
       THEN [update_count |->
                 acc.update_count + IF new_signal = "Low" THEN 0 ELSE 1,
             nodes |-> [acc.nodes EXCEPT ![id].signal = new_signal],
             pin_states |->
                 Bind(SetToSeq(node.pin_ids), LAMBDA pins :
                     set_inputs(acc.pin_states, pins, 1, new_signal))]
       ELSE acc

\* Variant of node_step: the resolved signal is not cached in the node.
node_step_uncached(acc, id) ==
    LET node == acc.nodes[id]
        new_signal == resolve(node, acc.pin_states)
    IN IF new_signal # node.signal
       THEN [update_count |-> acc.update_count + 1,
             nodes |-> acc.nodes,
             pin_states |->
                 Bind(SetToSeq(node.pin_ids), LAMBDA pins :
                     set_inputs(acc.pin_states, pins, 1, new_signal))]
       ELSE acc

\* One iteration of the loop of update_nodes: resolve node id, and on a
\* change count it, cache the signal and write it to the Input members.
node_step(acc, id) ==
    LET node == acc.nodes[id]
        new_signal == resolve(node, acc.pin_states)
    IN IF new_signal # node.signal
       THEN [update_count |-> acc.update_count + 1,
             nodes |-> [acc.nodes EXCEPT ![id].signal = new_signal],
             pin_states |->
                 Bind(SetToSeq(node.pin_ids), LAMBDA pins :
                     set_inputs(acc.pin_states, pins, 1, new_signal))]
       ELSE acc

\* GraphImpl::update_nodes, node by node in ascending id order.
RECURSIVE update_nodes_range(_, _, _, _)
update_nodes_range(ids, lo, hi, acc) ==
    IF lo > hi THEN acc
    ELSE IF lo = hi THEN node_step(acc, ids[lo])
    ELSE Bind(update_nodes_range(ids, lo, (lo + hi) \div 2, acc),
              LAMBDA acc2 :
                  update_nodes_range(ids, (lo + hi) \div 2 + 1, hi, acc2))

update_nodes_from(ids, acc) == update_nodes_range(ids, 1, Len(ids), acc)

update_nodes(ps, ns) ==
    Bind(SetToSeq(DOMAIN ns), LAMBDA ids :
        update_nodes_from(ids, [update_count |-> 0, nodes |-> ns,
                                pin_states |-> ps]))

\* Variant of tick: the node phase, then the part phase.
tick_nodes_first(ps, ns, pts) ==
    LET r == update_nodes(ps, ns)
    IN [r EXCEPT !.pin_states = update_parts(r.pin_states, pts)]

\* Graph::tick: the part phase, then the node phase.
tick(ps, ns, pts) == update_nodes(update_parts(ps, pts), ns)

\* Node::new
NewNode(pin_id) == [pin_ids |-> {pin_id}, signal |-> "Error"]

\* GraphImpl::new_pin on a graph record g.
new_pin(g, state) ==
    LET id == Len(g.pin_states) + 1
        node_id == g.next_node
    IN [g EXCEPT !.pin_states = Append(@, state),
                 !.next_node = @ + 1,
                 !.nodes = [n \in DOMAIN @ \cup {node_id} |->
                               IF n = node_id THEN NewNode(id) ELSE @[n]],
                 !.pin_nodes = Append(@, node_id)]

\* Graph::new_pins
RECURSIVE new_pins(_, _)
new_pins(g, states) ==
    IF states = <<>> THEN g
    ELSE new_pins(new_pin(g, Head(states)), Tail(states))

\* Variant of new_part: the range starts at the last pin made before.
new_part_overlap(g, kind, width, states) ==
    LET start == Max({1, Len(g.pin_states)})
        end == Len(g.pin_states) + 1 + Len(states)
    IN new_pins([g EXCEPT !.parts = Append(@, [kind |-> kind, width |-> width,
                                                start |-> start, end |-> end])],
                states)

\* Graph::new_part
new_part(g, kind, width, states) ==
    LET start == Len(g.pin_states) + 1
        end == start + Len(states)
    IN new_pins([g EXCEPT !.parts = Append(@, [kind |-> kind, width |-> width,
                                                start |-> start, end |-> end])],
                states)

\* Variant of connect: pin b alone moves to the node of a.
connect_move_one(g, a, b) ==
    LET a_node_id == g.pin_nodes[a]
        b_node_id == g.pin_nodes[b]
        b_node == g.nodes[b_node_id]
        gone == IF b_node.pin_ids = {b} THEN {b_node_id} ELSE {}
    IN [g EXCEPT !.nodes = [n \in DOMAIN @ \ gone |->
                              IF n = a_node_id
                              THEN [@[n] EXCEPT !.pin_ids = @ \cup {b}]
                              ELSE IF n = b_node_id
                              THEN [@[n] EXCEPT !.pin_ids = @ \ {b}]
                              ELSE @[n]],
                 !.pin_nodes = [@ EXCEPT ![b] = a_node_id]]

\* Variant of connect: the reverse index keeps the node of b's pins.
connect_no_reverse(g, a, b) ==
    LET a_node_id == g.pin_nodes[a]
        b_node_id == g.pin_nodes[b]
        b_node == g.nodes[b_node_id]
    IN [g EXCEPT !.nodes = [n \in DOMAIN @ \ {b_node_id} |->
                              IF n = a_node_id
                              THEN [@[n] EXCEPT !.pin_ids = @ \cup b_node.pin_ids]
                              ELSE @[n]]]

\* GraphImpl::connect, for a and b in different nodes.
connect(g, a, b) ==
    LET a_node_id == g.pin_nodes[a]
        b_node_id == g.pin_nodes[b]
        b_node == g.nodes[b_node_id]
    IN [g EXCEPT !.nodes = [n \in DOMAIN @ \ {b_node_id} |->
                              IF n = a_node_id
                              THEN [@[n] EXCEPT !.pin_ids = @ \cup b_node.pin_ids]
                              ELSE @[n]],
                 !.pin_nodes = [p \in DOMAIN @ |->
                              IF p \in b_node.pin_ids THEN a_node_id ELSE @[p]]]

\* Variant of Graph_connect: only a pin connected to itself is refused.
Graph_connect_self_only(g, a, b) ==
    IF a = b
    THEN [panic |-> TRUE, g |-> g]
    ELSE [panic |-> FALSE, g |-> connect(g, a, b)]

\* Graph::connect: panics on two pins of one node, merges otherwise.
Graph_connect(g, a, b) ==
    IF g.pin_nodes[a] = g.pin_nodes[b]
    THEN [panic |-> TRUE, g |-> g]
    ELSE [panic |-> FALSE, g |-> connect(g, a, b)]

\* Variant of set_output: the state of the pin is not asserted.
set_output_unasserted(g, pin, signal) ==
    [panic |-> FALSE, g |-> [g EXCEPT !.pin_states[pin] = Output(signal)]]

\* Graph::set_output: the assertion fails on a pin that is no Output.
set_output(g, pin, signal) ==
    IF g.pin_states[pin].k # "Output"
    THEN [panic |-> TRUE, g |-> g]
    ELSE [panic |-> FALSE, g |-> [g EXCEPT !.pin_states[pin] = Output(signal)]]

\* Variant of flip_output: the pin puts out High.
flip_output_high(g, pin) ==
    IF g.pin_states[pin].k # "Output"
    THEN [panic |-> TRUE, g |-> g]
    ELSE [panic |-> FALSE, g |-> [g EXCEPT !.pin_states[pin] = Output("High")]]

\* Graph::flip_output: the pin puts out the inverse of its signal.
flip_output(g, pin) ==
    IF g.pin_states[pin].k # "Output"
    THEN [panic |-> TRUE, g |-> g]
    ELSE [panic |-> FALSE,
          g |-> [g EXCEPT !.pin_states[pin] = Output(not(sig(@)))]]

\* Variant of StateHash: the tick count goes into the hasher as well.
StateHashWithTicks(ps, ns) == <<ps, ns, stats.ticks>>

\* Fingerprint of run(): pin_states and nodes go into the hasher.
StateHash(ps, ns) == <<ps, ns>>

\* Variant of RunStatsInit: the count of ticks starts at 2.
RunStatsInitTwo == [ticks |-> 2, updates |-> 0, cycle |-> 0]

\* The RunStats run() starts from.
RunStatsInit == [ticks |-> 1, updates |-> 0, cycle |-> 0]

\* impl Add for RunStats
RunStats_add(self, rhs) ==
    [ticks |-> self.ticks + rhs.ticks,
     updates |-> self.updates + rhs.updates,
     cycle |-> self.cycle + rhs.cycle]

\* Variant of CycleLength: one tick more is taken off.
CycleLengthShort(ticks, prev) == ticks - prev - 2

\* stats.cycle = stats.ticks - tick - 1
CycleLength(ticks, prev) == ticks - prev - 1

Graph == [pin_states |-> pin_states, nodes |-> nodes, next_node |-> next_node,
          pin_nodes |-> pin_nodes, parts |-> parts]

SetGraph(g) ==
    /\ pin_states' = g.pin_states
    /\ nodes' = g.nodes
    /\ next_node' = g.next_node
    /\ pin_nodes' = g.pin_nodes
    /\ parts' = g.parts

\* ------------------------------------------------------------------ actions
\* No call is in progress and none has panicked.
Idle == pc \in {"idle", "ticked", "done", "pulsed"} /\ pulse.step \notin {1, 2}

\* Any call between runs discards the RunStats returned by the last run.
Forget(to) == pc' = to /\ stats' = NoStats /\ stop' = "none"
              /\ pulse' = NoPulse
              /\ UNCHANGED state_hashes

\* A call that changes the graph: a run that follows is no first run.
Touch == phase' = IF phase = "built" THEN "built" ELSE "later"

Init ==
    /\ pin_states = <<>>
    /\ nodes = [n \in {} |-> NewNode(0)]
    /\ next_node = 0
    /\ pin_nodes = <<>>
    /\ parts = <<>>
    /\ pc = "idle"
    /\ stats = NoStats
    /\ state_hashes = NoHashes
    /\ stop = "none"
    /\ phase = "built"
    /\ pulse = NoPulse

\* Graph::new_output(name, signal)
NewOutput(max) ==
    /\ Idle /\ Len(pin_states) + 1 <= max
    /\ \E s \in {"Low", "High"} : SetGraph(new_pin(Graph, Output(s)))
    /\ Forget("idle") /\ Touch

\* Graph::new_input(name)
NewInput(max) ==
    /\ Idle /\ Len(pin_states) + 1 <= max
    /\ SetGraph(new_pin(Graph, INPUT))
    /\ Forget("idle") /\ Touch

\* not_gate, buffer, and_gate, ..., BusTristate::new: one new part.
NewPart(kinds, max) ==
    /\ Idle
    /\ \E kind \in kinds :
         LET states == InitialStates(kind, 1) IN
         /\ Len(pin_states) + Len(states) <= max
         /\ SetGraph(new_part(Graph, kind, 1, states))
    /\ Forget("idle") /\ Touch

\* Graph::connect(a, b); a call on two pins of one node panics.
Connect ==
    /\ Idle
    /\ \E a \in Pins, b \in Pins :
         \E r \in {Graph_connect(Graph, a, b)} :
            /\ SetGraph(r.g)
            /\ Forget(IF r.panic THEN "connect_panic" ELSE "idle")
    /\ Touch

\* Graph::set_output(pin, signal); a call that changes nothing is left out.
SetOutput ==
    /\ Idle
    /\ \E p \in Pins, s \in {"Low", "High"} :
         \E r \in {set_output(Graph, p, s)} :
            /\ pin_states[p] # Output(s)
            /\ SetGraph(r.g)
            /\ Forget(IF r.panic THEN "set_output_panic" ELSE "idle")
    /\ Touch

\* Graph::flip_output(pin)
FlipOutput ==
    /\ Idle
    /\ \E p \in Pins :
         \E r \in {flip_output(Graph, p)} :
            /\ SetGraph(r.g)
            /\ Forget(IF r.panic THEN "flip_output_panic" ELSE "idle")
    /\ Touch

\* Graph::tick()
Tick ==
    /\ Idle
    /\ \E r \in {tick(pin_states, nodes, parts)} :
         /\ pin_states' = r.pin_states
         /\ nodes' = r.nodes
    /\ Forget("ticked") /\ phase' = "later"
    /\ UNCHANGED <<next_node, pin_nodes, parts>>

\* Graph::run(): entry, stats initialised, no fingerprint recorded yet.
RunBegin ==
    /\ Idle
    /\ pc' = "run"
    /\ stats' = RunStatsInit
    /\ state_hashes' = NoHashes
    /\ stop' = "none"
    /\ phase' = IF phase = "built" THEN "first" ELSE "later"
    /\ pulse' = NoPulse
    /\ UNCHANGED <<pin_states, nodes, next_node, pin_nodes, parts>>

\* Graph::run(): one iteration of the loop.
RunLoop ==
    /\ pc = "run" /\ stats.ticks < MaxTicks
    /\ \E r \in {tick(pin_states, nodes, parts)} :
       LET n == r.update_count
           ticks == stats.ticks + 1
           hash == StateHash(r.pin_states, r.nodes)
       IN
         /\ pin_states' = r.pin_states
         /\ nodes' = r.nodes
         /\ IF n = 0
            THEN /\ pc' = "done" /\ stop' = "steady"
                 /\ state_hashes' = NoHashes
                 /\ UNCHANGED stats
            ELSE IF hash \in DOMAIN state_hashes
            THEN /\ pc' = "done" /\ stop' = "cycle"
                 /\ state_hashes' = NoHashes
                 /\ stats' = [ticks |-> ticks, updates |-> stats.updates + n,
                              cycle |-> CycleLength(ticks, state_hashes[hash])]
            ELSE /\ pc' = "run" /\ stop' = "none"
                 /\ state_hashes' = [h \in DOMAIN state_hashes \cup {hash} |->
                                       IF h = hash THEN ticks ELSE state_hashes[h]]
                 /\ stats' = [ticks |-> ticks, updates |-> stats.updates + n,
                              cycle |-> 0]
    /\ UNCHANGED <<next_node, pin_nodes, parts, phase, pulse>>

\* Graph::pulse_output(pin): the first flip_output and the entry of the
\* first run().
PulseBegin ==
    /\ Idle
    /\ \E p \in Pins :
         \E r \in {flip_output(Graph, p)} :
            /\ SetGraph(r.g)
            /\ IF r.panic
               THEN Forget("flip_output_panic")
               ELSE /\ pc' = "run"
                    /\ stats' = RunStatsInit
                    /\ state_hashes' = NoHashes
                    /\ stop' = "none"
                    /\ pulse' = [pin |-> p, step |-> 1, before |-> pin_states[p],
                                 first |-> NoStats, second |-> NoStats]
    /\ phase' = "later"

\* Graph::pulse_output(pin): the first run() has returned; the second
\* flip_output and the entry of the second run().
PulseSecond ==
    /\ pc = "done" /\ pulse.step = 1
    /\ \E r \in {flip_output(Graph, pulse.pin)} :
         /\ SetGraph(r.g)
         /\ IF r.panic
            THEN /\ pc' = "flip_output_panic"
                 /\ UNCHANGED <<stats, state_hashes, stop, pulse>>
            ELSE /\ pc' = "run"
                 /\ stats' = RunStatsInit
                 /\ state_hashes' = NoHashes
                 /\ stop' = "none"
                 /\ pulse' = [pulse EXCEPT !.step = 2, !.first = stats]
    /\ UNCHANGED phase

\* Graph::pulse_output(pin): the second run() has returned; the sum of
\* both RunStats is returned.
PulseReturn ==
    /\ pc = "done" /\ pulse.step = 2
    /\ pc' = "pulsed"
    /\ stats' = RunStats_add(pulse.first, stats)
    /\ pulse' = [pulse EXCEPT !.step = 3, !.second = stats]
    /\ UNCHANGED <<pin_states, nodes, next_node, pin_nodes, parts,
                   state_hashes, stop, phase>>

KernelKinds == {"not", "nand", "tristate"}

Next ==
    \/ NewOutput(MaxPins)
    \/ NewInput(MaxPins)
    \/ NewPart(KernelKinds, MaxPins)
    \/ Connect
    \/ SetOutput
    \/ FlipOutput
    \/ Tick
    \/ RunBegin
    \/ RunLoop

Spec == Init /\ [][Next]_vars

\* ----------------------------------------------- circuits of gates, then run
GateKinds == UnaryKinds \cup BinaryKinds

\* Pins of parts for which the part's struct hands out no Pin: the
\* TOGGLE_PREV pin of a T flip-flop.
HiddenPins ==
    {parts[i].start + TOGGLE_PREV : i \in {j \in PartIds : parts[j].kind = "tff"}}

\* Graph::connect(a, b) as a circuit is wired: a drives, b is an input of a
\* gate that nothing is connected to yet.
Wire ==
    /\ Idle
    /\ \E a \in Pins, b \in Pins \ HiddenPins :
         /\ pin_states[a].k = "Output"
         /\ pin_states[b].k = "Input"
         /\ nodes[pin_nodes[b]].pin_ids = {b}
         /\ pin_nodes[a] # pin_nodes[b]
         /\ SetGraph(connect(Graph, a, b))
    /\ Forget("idle") /\ Touch

Building == phase = "built" /\ pc = "idle"

\* Graph::set_output(pin, signal) on a source pin of the circuit.
SetSource ==
    /\ Idle
    /\ \E p \in SourcePins, s \in {"Low", "High"} :
         /\ pin_states[p].k = "Output"
         /\ pin_states[p] # Output(s)
         /\ pin_states' = [pin_states EXCEPT ![p] = Output(s)]
    /\ Forget("idle") /\ Touch
    /\ UNCHANGED <<nodes, next_node, pin_nodes, parts>>

GatesNextAt(kinds, max) ==
    \/ Building /\ NewOutput(max)
    \/ Building /\ NewPart(kinds, max)
    \/ Building /\ Wire
    \/ SetSource
    \/ RunBegin
    \/ RunLoop

GatesNext == GatesNextAt(GateKinds, MaxGatePins)

SpecGates == Init /\ [][GatesNext]_vars

\* The same with fewer kinds of gates and fewer pins, and with the loop of
\* run() always continued: run() is a plain loop of a single thread.
LiveKinds == {"not", "nand", "xor"}

LiveNext == GatesNextAt(LiveKinds, MaxLivePins)

LiveGates == Init /\ [][LiveNext]_vars /\ WF_vars(RunLoop)

\* A circuit is wired, then run and pulsed at any of its pins.
PulseKinds == {"not", "tristate"}

PulseNext ==
    \/ GatesNextAt(PulseKinds, MaxPulsePins)
    \/ PulseBegin
    \/ PulseSecond
    \/ PulseReturn

SpecPulse == Init /\ [][PulseNext]_vars

\* Circuits of not gates alone, rings of three among them.
RingKinds == {"not"}

RingNext == GatesNextAt(RingKinds, MaxRingPins)

SpecRing == Init /\ [][RingNext]_vars

\* A T flip-flop and sources, wired, then run.
TffKinds == {"tff"}

TffNext == GatesNextAt(TffKinds, MaxTffPins)

SpecTff == Init /\ [][TffNext]_vars

\* Pins alone, connected in every order the interface allows.
ConnectNext ==
    \/ NewInput(MaxConnPins)
    \/ Connect

SpecConnect == Init /\ [][ConnectNext]_vars

\* ------------------------------------------------------ vocabulary of claims
\* The last operation on the graph was a tick (on its own or inside run).
AfterTick == pc \in {"ticked", "done"} \/ (pc = "run" /\ stats.ticks > 1)

OutputPins(n) == {p \in nodes[n].pin_ids : pin_states[p].k = "Output"}

InputPins(n) == {p \in nodes[n].pin_ids : pin_states[p].k = "Input"}

\* The states of a node's member pins, in ascending pin order.
MemberStates(n) ==
    LET ids == SetToSeq(nodes[n].pin_ids)
    IN [i \in DOMAIN ids |-> pin_states[ids[i]]]

\* ----------------------------------------------------------------------- C2
\* C2: after every tick, every pin in state Input(s) has s equal to the
\* cached signal of the node it belongs to.
C2_InputsFollowNode ==
    AfterTick =>
        \A p \in Pins :
            pin_states[p].k = "Input" =>
                pin_states[p].s = nodes[pin_nodes[p]].signal

\* ----------------------------------------------------------------------- C3
\* C3: after a node phase, a node with exactly one member in Output state,
\* of signal s, has cached signal s and every Input member is Input(s).
C3_SingleDriver ==
    AfterTick =>
        \A n \in NodeIds :
            Cardinality(OutputPins(n)) = 1 =>
                LET s == pin_states[CHOOSE p \in OutputPins(n) : TRUE].s
                IN /\ nodes[n].signal = s
                   /\ \A q \in InputPins(n) : pin_states[q] = Input(s)

\* ----------------------------------------------------------------------- C4
\* The graph of the scenario: no part, one input pin and two output pins,
\* one High and one Low, all three in one node.
TwoDriverGraph ==
    /\ Len(pin_states) = 3 /\ parts = <<>>
    /\ Cardinality(NodeIds) = 1
    /\ \E a, b, c \in Pins :
         /\ pin_states[a] = Output("High")
         /\ pin_states[b] = Output("Low")
         /\ pin_states[c].k = "Input"

\* C4: in a fresh graph with an Output(High) and an Output(Low) pin connected
\* to one input pin, the input pin's signal is Error after run() returns.
C4_TwoDriversGiveError ==
    (pc = "done" /\ phase = "first" /\ TwoDriverGraph) =>
        \A c \in Pins : pin_states[c].k = "Input" => sig(pin_states[c]) = "Error"

\* ----------------------------------------------------------------------- C5
\* Two members of the node are outputs of distinct signals, neither Error.
Conflict(n) ==
    \E p, q \in OutputPins(n) :
        /\ pin_states[p].s # pin_states[q].s
        /\ pin_states[p].s # "Error"
        /\ pin_states[q].s # "Error"

\* C5: after a node phase, a node with two or more members in Output state
\* with distinct non-Error signals has cached signal Error.
C5_ConflictIsError ==
    AfterTick => \A n \in NodeIds : Conflict(n) => nodes[n].signal = "Error"

\* A tick has resolved a node on which a Low and a High output meet.
C5_Witness ==
    AfterTick /\ \E n \in NodeIds : Conflict(n) /\ nodes[n].signal = "Error"

\* ----------------------------------------------------------------------- C6
\* C6: the signal a node resolves to depends on the states of its member
\* pins only (nodes with the same member states carry the same signal), and
\* a node without a member in Output state resolves to Off.
C6_PureResolution ==
    AfterTick =>
        /\ \A n, m \in NodeIds :
              MemberStates(n) = MemberStates(m) =>
                  nodes[n].signal = nodes[m].signal
        /\ \A n \in NodeIds : OutputPins(n) = {} => nodes[n].signal = "Off"

\* ----------------------------------------------------------------------- C1
\* While run() loops, every counted tick updated a node and left a state
\* that no earlier tick of the run left; the tick cap has not been reached.
RunLoops ==
    pc = "run" =>
        /\ Cardinality(DOMAIN state_hashes) = stats.ticks - 1
        /\ stats.updates >= stats.ticks - 1
        /\ stats.ticks < MaxTicks

\* C1: a call to run() returns, and until it does every tick it made
\* updated a node and left a global state not seen before in the run.
C1_RunTerminates == []RunLoops /\ ((pc = "run") ~> (pc = "done"))

\* A run that went round its loop several times has returned.
C1_Witness == pc = "done" /\ stats.ticks > 3

\* ----------------------------------------------------------------------- C7
\* C7: run() returns cycle > 0 when it stopped on a repeated global state
\* and cycle = 0 when it stopped on a tick without node updates; it stops in
\* no other way.
C7_CycleReported ==
    pc = "done" =>
        /\ stop \in {"steady", "cycle"}
        /\ stop = "cycle" => stats.cycle > 0
        /\ stop = "steady" => stats.cycle = 0

\* A run has stopped on a repeated global state.
C7_Witness == pc = "done" /\ stop = "cycle" /\ stats.cycle > 0

\* ------------------------------------------------------- shape of a circuit
\* Pins of part i that its initial states make inputs / outputs.
PartInputs(i) ==
    {q \in parts[i].start .. parts[i].end - 1 :
        InitialStates(parts[i].kind, parts[i].width)[q - parts[i].start + 1].k
            = "Input"}

PartOutputs(i) == (parts[i].start .. parts[i].end - 1) \ PartInputs(i)

\* An output of part j is connected to an input of part i.
Feeds(j, i) ==
    \E o \in PartOutputs(j), q \in PartInputs(i) : pin_nodes[o] = pin_nodes[q]

\* Number of gates on the longest chain that ends in part i, cut at fuel.
RECURSIVE ChainTo(_, _)
ChainTo(i, fuel) ==
    IF fuel = 0 THEN 0
    ELSE 1 + Max({0} \cup {ChainTo(j, fuel - 1) : j \in {k \in PartIds : Feeds(k, i)}})

Acyclic == \A i \in PartIds : ChainTo(i, Len(parts) + 1) <= Len(parts)

\* D: the number of gates on the longest chain of the circuit.
Depth == Max({0} \cup {ChainTo(i, Len(parts)) : i \in PartIds})

\* run() has returned from the first run of a freshly built circuit.
FirstRunDone == pc = "done" /\ phase = "first"

\* ----------------------------------------------------------------------- C8
\* Three not gates and nothing else, each output connected to the input of
\* another gate, all three on one ring.
NotRing3 ==
    /\ Len(parts) = 3 /\ Len(pin_states) = 6
    /\ \A i \in PartIds : parts[i].kind = "not"
    /\ \A i \in PartIds :
         /\ ~Feeds(i, i)
         /\ Cardinality({k \in PartIds : Feeds(i, k)}) = 1
         /\ Cardinality({k \in PartIds : Feeds(k, i)}) = 1
    /\ \A n \in NodeIds : Cardinality(nodes[n].pin_ids) = 2

\* C8 as stated: the run of a freshly built ring of three not gates returns
\* a positive cycle value.
C8_RingOscillates == (FirstRunDone /\ NotRing3) => stats.cycle > 0

\* C8 amended: the run of a freshly built ring of three not gates ends in a
\* steady state, cycle = 0 and ticks = 2, with every pin at signal Off.
C8_RingSettlesOff ==
    (FirstRunDone /\ NotRing3) =>
        /\ stop = "steady" /\ stats.cycle = 0 /\ stats.ticks = 2
        /\ \A p \in Pins : sig(pin_states[p]) = "Off"
        /\ \A n \in NodeIds : nodes[n].signal = "Off"

C8_Witness == FirstRunDone /\ NotRing3 /\ stop = "steady"

\* ----------------------------------------------------------------------- C9
\* C9 as stated: the first run of an acyclic circuit of gates fed by fixed
\* sources returns cycle = 0 and ticks <= D + 1.
C9_TicksWithinDepthPlus1 ==
    (FirstRunDone /\ Acyclic) => stats.cycle = 0 /\ stats.ticks <= Depth + 1

\* C9 amended: the first run of such a circuit returns cycle = 0 and
\* ticks <= D + 2.
C9_TicksWithinDepthPlus2 ==
    (FirstRunDone /\ Acyclic) =>
        stop = "steady" /\ stats.cycle = 0 /\ stats.ticks <= Depth + 2

\* The first run of an acyclic circuit with a chain of two gates or more
\* has returned, having used all D + 2 ticks.
C9_Witness ==
    FirstRunDone /\ Acyclic /\ Depth >= 2 /\ stats.ticks = Depth + 2

\* ---------------------------------------------------------------------- C10
\* Source a = Output(High) feeding not gate g, whose output feeds not gate h.
NotChain2(a, g, h) ==
    /\ Len(parts) = 2 /\ Len(pin_states) = 5
    /\ parts[g].kind = "not" /\ parts[h].kind = "not" /\ g # h
    /\ a \in SourcePins /\ pin_states[a] = Output("High")
    /\ nodes[pin_nodes[a]].pin_ids = {a, parts[g].start}
    /\ nodes[pin_nodes[parts[g].start + 1]].pin_ids
          = {parts[g].start + 1, parts[h].start}
    /\ nodes[pin_nodes[parts[h].start + 1]].pin_ids = {parts[h].start + 1}

\* C10 as stated: the run returns ticks = 3 with the first gate's output Low
\* and the second gate's output High.
C10_NotChainTicks3 ==
    \A a \in Pins, g, h \in PartIds :
        (FirstRunDone /\ NotChain2(a, g, h)) =>
            /\ stats.ticks = 3
            /\ sig(pin_states[parts[g].start + 1]) = "Low"
            /\ sig(pin_states[parts[h].start + 1]) = "High"

\* C10 amended: the run returns ticks = 4 (three ticks that update nodes and
\* the tick that finds nothing to update) with the first gate's output Low
\* and the second gate's output High.
C10_NotChainTicks4 ==
    \A a \in Pins, g, h \in PartIds :
        (FirstRunDone /\ NotChain2(a, g, h)) =>
            /\ stats.ticks = 4 /\ stats.cycle = 0
            /\ sig(pin_states[parts[g].start + 1]) = "Low"
            /\ sig(pin_states[parts[h].start + 1]) = "High"

C10_Witness ==
    \E a \in Pins, g, h \in PartIds :
        FirstRunDone /\ NotChain2(a, g, h) /\ stats.ticks = 4

\* ---------------------------------------------------------------------- C11
\* The logic function of a gate, on the signals of its inputs.
GateFunction(kind, in) ==
    CASE kind = "not" -> not(in[1])
      [] kind = "buffer" -> in[1]
      [] kind = "and" -> bitand(in[1], in[2])
      [] kind = "nand" -> not(bitand(in[1], in[2]))
      [] kind = "or" -> bitor(in[1], in[2])
      [] kind = "nor" -> not(bitor(in[1], in[2]))
      [] kind = "xor" -> bitxor(in[1], in[2])

\* The step is one tick: Graph::tick() or one iteration of run().
TickStep == pc' = "ticked" \/ pc = "run"

\* C11: in every tick, every gate's output becomes its logic function of
\* the values its input pins had when the tick began (the values the tick
\* before left), whatever the other parts put out in the same tick.
C11_OneTickDelay ==
    [][TickStep =>
        \A i \in PartIds :
            parts[i].kind \in GateKinds =>
                LET ins == SetToSeq(PartInputs(i))
                    in == [j \in DOMAIN ins |-> sig(pin_states[ins[j]])]
                IN pin_states'[parts[i].end - 1]
                       = Output(GateFunction(parts[i].kind, in))]_vars

\* A tick of a run has changed the output of a not gate to Low and brought
\* it to the input of the not gate it feeds, whose output still is the
\* inverse of the open input that tick began with.
C11_Witness ==
    /\ pc = "run"
    /\ \E g, h \in PartIds :
         /\ parts[g].kind = "not" /\ parts[h].kind = "not" /\ Feeds(g, h)
         /\ pin_states[parts[g].start + 1] = Output("Low")
         /\ pin_states[parts[h].start] = Input("Low")
         /\ pin_states[parts[h].start + 1] = Output("Off")

\* ---------------------------------------------------------------------- C12
\* The nodes partition the pins and pin_nodes is the partition's index.
PartitionOK ==
    /\ Len(pin_nodes) = Len(pin_states)
    /\ \A n \in NodeIds : nodes[n].pin_ids # {} /\ nodes[n].pin_ids \subseteq Pins
    /\ \A p \in Pins :
         /\ pin_nodes[p] \in NodeIds
         /\ \A n \in NodeIds : (pin_nodes[p] = n) <=> (p \in nodes[n].pin_ids)

\* Every pin the step creates is the one member of a node that is new.
NewPinsSingleton ==
    \A p \in (1 .. Len(pin_states')) \ Pins :
        /\ pin_nodes'[p] \notin NodeIds
        /\ nodes'[pin_nodes'[p]].pin_ids = {p}

\* Two pins of one node are pins of one node after the step.
NeverSplit ==
    \A p, q \in Pins : pin_nodes[p] = pin_nodes[q] => pin_nodes'[p] = pin_nodes'[q]

\* C12: at all times every pin is a member of exactly one node and
\* pin_nodes[p] = n exactly when p is in nodes[n].pin_ids; a new pin starts
\* in a new singleton node; pins once in one node stay in one node.
C12_NodesPartitionPins ==
    []PartitionOK /\ [][NewPinsSingleton /\ NeverSplit]_vars

\* A part has been made and connect has merged all pins into one node.
C12_Witness ==
    /\ Len(parts) = 1 /\ Len(pin_states) >= 3
    /\ Cardinality(NodeIds) = 1

\* ---------------------------------------------------------------------- C13
\* What connect(a, b) does to the graph as it is, for every a and b.
ConnectOutcome ==
    \A a \in Pins, b \in Pins :
        LET r == Graph_connect(Graph, a, b)
            a_node_id == pin_nodes[a]
            b_node_id == pin_nodes[b]
            merged == nodes[a_node_id].pin_ids \cup nodes[b_node_id].pin_ids
        IN IF a_node_id = b_node_id
           THEN r.panic /\ r.g = Graph
           ELSE /\ ~r.panic
                /\ DOMAIN r.g.nodes = NodeIds \ {b_node_id}
                /\ r.g.nodes[a_node_id].pin_ids = merged
                /\ \A n \in NodeIds \ {a_node_id, b_node_id} :
                      r.g.nodes[n] = nodes[n]
                /\ \A p \in Pins :
                      r.g.pin_nodes[p]
                          = IF p \in merged THEN a_node_id ELSE pin_nodes[p]
                /\ r.g.pin_states = pin_states

\* A call of connect that panics leaves the graph as it was.
ConnectPanicLeavesGraph ==
    pc' = "connect_panic" => UNCHANGED <<pin_states, nodes, next_node, pin_nodes, parts>>

\* C13: connect(a, b) panics whenever a and b are in one node (a = b,
\* connected directly or through other pins) and then leaves nodes, reverse
\* index and pin states unchanged; otherwise it succeeds, the node of a
\* survives with the union of both member sets and the node of b is gone.
C13_ConnectFailsOrMerges ==
    []ConnectOutcome /\ [][ConnectPanicLeavesGraph]_vars

\* connect has panicked on a graph in which three pins share a node, so that
\* two of them were never connected to each other directly.
C13_Witness ==
    /\ pc = "connect_panic"
    /\ \E n \in NodeIds : Cardinality(nodes[n].pin_ids) >= 3

\* ---------------------------------------------------------------------- C14
\* The partition of the pins of graph g, by the nodes' member sets and by
\* the reverse index.
PartitionOf(g) ==
    <<{g.nodes[n].pin_ids : n \in DOMAIN g.nodes},
      {{q \in DOMAIN g.pin_nodes : g.pin_nodes[q] = g.pin_nodes[p]} :
          p \in DOMAIN g.pin_nodes}>>

\* The graph after connect(a, b) then connect(c, d), and whether either
\* call panicked.
ConnectTwice(g, a, b, c, d) ==
    LET first == Graph_connect(g, a, b)
        second == Graph_connect(first.g, c, d)
    IN [panic |-> first.panic \/ second.panic, g |-> second.g]

\* C14: from every graph, two connect calls that succeed in one order
\* succeed in the other order and with their arguments exchanged, and every
\* such variation ends in the same partition of the pins into nodes.
C14_ConnectOrderFree ==
    \A a \in Pins, b \in Pins, c \in Pins, d \in Pins :
        LET r == ConnectTwice(Graph, a, b, c, d)
        IN ~r.panic =>
            \A other \in {ConnectTwice(Graph, c, d, a, b),
                           ConnectTwice(Graph, b, a, c, d),
                           ConnectTwice(Graph, a, b, d, c),
                           ConnectTwice(Graph, d, c, b, a)} :
                ~other.panic /\ PartitionOf(other.g) = PartitionOf(r.g)

\* connect calls have merged five pins into a node of three pins and a
\* node of two: nodes of several pins have been merged in some order.
C14_Witness ==
    /\ pc = "idle" /\ Len(pin_states) = 5
    /\ \E n, m \in NodeIds :
         /\ NodeIds = {n, m}
         /\ Cardinality(nodes[n].pin_ids) = 3
         /\ Cardinality(nodes[m].pin_ids) = 2

\* ---------------------------------------------------------------------- C15
\* What set_output(p, s) and flip_output(p) do to the graph as it is, for
\* every pin p and signal s.
SetOutputOutcome ==
    \A p \in Pins, s \in Signal :
        LET r == set_output(Graph, p, s)
            f == flip_output(Graph, p)
        IN IF pin_states[p].k = "Output"
           THEN /\ ~r.panic /\ ~f.panic
                /\ r.g.pin_states[p] = Output(s)
                /\ \A q \in Pins \ {p} :
                      /\ r.g.pin_states[q] = pin_states[q]
                      /\ f.g.pin_states[q] = pin_states[q]
                /\ [r.g EXCEPT !.pin_states = pin_states] = Graph
                /\ [f.g EXCEPT !.pin_states = pin_states] = Graph
           ELSE /\ r.panic /\ r.g = Graph
                /\ f.panic /\ f.g = Graph

\* A call of set_output or flip_output that panics leaves the graph as it was.
OutputPanicLeavesGraph ==
    pc' \in {"set_output_panic", "flip_output_panic"} =>
        UNCHANGED <<pin_states, nodes, next_node, pin_nodes, parts>>

\* C15: set_output and flip_output succeed exactly on a pin in Output
\* state; on a pin that is Input or HiZ, a part's pin included, they panic
\* and change nothing; set_output that succeeds makes the pin Output(sig)
\* and changes no other pin.
C15_OutputCallsNeedOutput ==
    []SetOutputOutcome /\ [][OutputPanicLeavesGraph]_vars

\* set_output has panicked on a graph whose pins are those of a tristate
\* buffer: an output the part holds at HiZ and two inputs.
C15_Witness ==
    /\ pc = "set_output_panic"
    /\ \E i \in PartIds : parts[i].kind = "tristate"
    /\ \A p \in Pins : pin_states[p].k # "Output"

\* ---------------------------------------------------------------------- C16
\* pulse_output was called on a pin in Output(Low) or Output(High).
PulsedLowHigh == pulse.before \in {Output("Low"), Output("High")}

\* pulse_output has returned: the pin is as it was at the call and the
\* RunStats returned is the sum of what the two runs returned.
PulseRestored ==
    /\ pc = "pulsed"
    /\ pin_states[pulse.pin] = pulse.before
    /\ stats.ticks = pulse.first.ticks + pulse.second.ticks
    /\ stats.updates = pulse.first.updates + pulse.second.updates
    /\ stats.cycle = pulse.first.cycle + pulse.second.cycle

\* C16 as stated: a call of pulse_output on any pin in Output(Low) or
\* Output(High) goes through both flips and both runs, and on return the pin
\* has the Output signal it had and the RunStats is the sum of both runs.
C16_PulseRestoresPin ==
    /\ (pc = "pulsed" /\ PulsedLowHigh) => PulseRestored
    /\ (pc = "flip_output_panic" /\ PulsedLowHigh) => pulse.step # 1

\* C16 amended: the same for a pin that belongs to no part.
C16_PulseRestoresSourcePin ==
    /\ (pc = "pulsed" /\ PulsedLowHigh /\ pulse.pin \in SourcePins) => PulseRestored
    /\ (pc = "flip_output_panic" /\ PulsedLowHigh /\ pulse.pin \in SourcePins)
          => pulse.step # 1

\* pulse_output has returned from a source pin after two runs that both
\* updated nodes.
C16_Witness ==
    /\ pc = "pulsed" /\ PulsedLowHigh /\ pulse.pin \in SourcePins
    /\ pulse.first.updates > 0 /\ pulse.second.updates > 0

\* ---------------------------------------------------------------------- C17
\* The part phase with the parts taken in the order given: order[i] is the
\* part evaluated in place i.
RECURSIVE update_parts_in(_, _, _, _)
update_parts_in(ps, pts, order, i) ==
    IF i > Len(pts) THEN ps
    ELSE Bind(part_step(ps, pts[order[i]]),
              LAMBDA ps2 : update_parts_in(ps2, pts, order, i + 1))

\* Every order of the parts.
PartOrders ==
    {order \in [PartIds -> PartIds] :
        \A i, j \in PartIds : order[i] = order[j] => i = j}

\* Part i owns the pins start .. end-1.
PartRange(i) == parts[i].start .. parts[i].end - 1

\* C17: the ranges of the parts are non-empty runs of existing pins, no two
\* of them share a pin, and the pin states a part phase leaves are the same
\* for every order in which the parts are evaluated.
C17_PartOrderFree ==
    /\ \A i \in PartIds : PartRange(i) # {} /\ PartRange(i) \subseteq Pins
    /\ \A i, j \in PartIds : i # j => PartRange(i) \cap PartRange(j) = {}
    /\ \A order \in PartOrders :
          update_parts_in(pin_states, parts, order, 1)
              = update_parts(pin_states, parts)

\* Within a run of a circuit of several parts: the part phase that follows
\* changes pins of two of them.
C17_Witness ==
    /\ pc = "run" /\ Len(parts) >= 2
    /\ \E i, j \in PartIds :
         /\ i # j
         /\ \E p \in PartRange(i), q \in PartRange(j) :
              /\ update_parts(pin_states, parts)[p] # pin_states[p]
              /\ update_parts(pin_states, parts)[q] # pin_states[q]

\* ---------------------------------------------------------------------- C18
\* Every order in which the nodes can be visited.
NodeOrders ==
    {order \in [1 .. Cardinality(NodeIds) -> NodeIds] :
        \A i, j \in DOMAIN order : order[i] = order[j] => i = j}

\* C18: for the snapshot a part phase leaves of any reachable graph, a
\* second update_nodes right after the first returns 0 and changes no pin
\* state and no node signal, and update_nodes visiting the nodes in any
\* order gives what it gives in the order of the node ids.
C18_NodePhaseIdempotent ==
    LET snapshot == update_parts(pin_states, parts)
        once == update_nodes(snapshot, nodes)
        twice == update_nodes(once.pin_states, once.nodes)
    IN /\ twice.update_count = 0
       /\ twice.pin_states = once.pin_states
       /\ twice.nodes = once.nodes
       /\ \A order \in NodeOrders :
             update_nodes_from(order,
                 [update_count |-> 0, nodes |-> nodes, pin_states |-> snapshot])
               = once

\* The first tick of a run has updated two nodes or more.
C18_Witness ==
    /\ pc = "run" /\ stats.ticks = 2 /\ stats.updates >= 2
    /\ Cardinality(NodeIds) >= 2

\* ---------------------------------------------------------------------- C19
\* The T flip-flops of the circuit.
FlipFlops == {i \in PartIds : parts[i].kind = "tff"}

\* The signal at the pin of flip-flop i that has index k in its slice, now
\* and after the step.
TffSig(i, k) == sig(pin_states[parts[i].start + k])

TffSigNext(i, k) == sig(pin_states'[parts[i].start + k])

\* C19: in every tick, for every T flip-flop whose Set and Reset are Low
\* (or open): if Toggle is High and was Low (or open) when the tick before
\* began, Q becomes the inverse of what it was; if Toggle is High and was
\* High, or Toggle is Low, Q keeps its value. What Toggle was when the tick
\* before began is what the flip-flop recorded of it.
C19_RisingEdgeToggles ==
    [][TickStep =>
        \A i \in FlipFlops :
            /\ TffSigNext(i, TOGGLE_PREV) = TffSig(i, TOGGLE)
            /\ (is_lowish(TffSig(i, SET)) /\ is_lowish(TffSig(i, RESET))) =>
                  /\ TffSig(i, OUTPUT_Q) \in {"Low", "High"}
                  /\ pin_states'[parts[i].start + OUTPUT_Q].k = "Output"
                  /\ TffSigNext(i, OUTPUT_Q) =
                        IF /\ is_high(TffSig(i, TOGGLE))
                           /\ is_lowish(TffSig(i, TOGGLE_PREV))
                        THEN not(TffSig(i, OUTPUT_Q))
                        ELSE TffSig(i, OUTPUT_Q)]_vars

\* A run has returned with Toggle High for two ticks or more and Q High, on
\* a flip-flop whose Set and Reset nothing was ever connected to: the one
\* rising edge has inverted Q once.
C19_Witness ==
    /\ pc = "done"
    /\ \E i \in FlipFlops :
         /\ nodes[pin_nodes[parts[i].start + SET]].pin_ids
                = {parts[i].start + SET}
         /\ nodes[pin_nodes[parts[i].start + RESET]].pin_ids
                = {parts[i].start + RESET}
         /\ TffSig(i, TOGGLE) = "High" /\ TffSig(i, TOGGLE_PREV) = "High"
         /\ TffSig(i, OUTPUT_Q) = "High" /\ TffSig(i, OUT_INV) = "Low"

\* ---------------------------------------------------------------------- C20
\* C20: in every tick, for every T flip-flop: if Reset is High, Q becomes
\* Low, whatever Set and Toggle are; if Reset is not High and Set is High,
\* Q becomes High, whatever Toggle is.
C20_ResetThenSet ==
    [][TickStep =>
        \A i \in FlipFlops :
            /\ is_high(TffSig(i, RESET)) =>
                  pin_states'[parts[i].start + OUTPUT_Q] = Output("Low")
            /\ (~is_high(TffSig(i, RESET)) /\ is_high(TffSig(i, SET))) =>
                  pin_states'[parts[i].start + OUTPUT_Q] = Output("High")]_vars

\* The first run of a circuit has returned with Reset, Set and Toggle all
\* High and Q Low: the tick that found Reset and Set High also found the
\* edge of Toggle, recorded since as the previous toggle state.
C20_Witness ==
    /\ FirstRunDone
    /\ \E i \in FlipFlops :
         /\ TffSig(i, RESET) = "High" /\ TffSig(i, SET) = "High"
         /\ TffSig(i, TOGGLE) = "High" /\ TffSig(i, TOGGLE_PREV) = "High"
         /\ TffSig(i, OUTPUT_Q) = "Low" /\ TffSig(i, OUT_INV) = "High"

\* ------------------------------------------------------------- bus values
\* Bit i of the number n (n >> i) & 1.
Bit(n, i) == (n \div (2 ^ i)) % 2

\* BusValue::new_val, BusValue::new_error
new_val(v) == [val |-> v, error |-> 0]

new_error(e) == [val |-> 0, error |-> e]

\* impl ToValue for Signal: the one-bit BusValue of a signal.
Signal_val(s) ==
    CASE s = "Error" -> new_error(1)
      [] s = "High" -> new_val(1)
      [] OTHER -> new_val(0)

\* impl ToValue for an iterator of signals, least-significant first.
RECURSIVE val_from(_, _, _)
val_from(sigs, i, bus_val) ==
    IF i > Len(sigs) THEN bus_val
    ELSE LET sig_val == Signal_val(sigs[i])
         IN val_from(sigs, i + 1,
                     [val |-> bus_val.val + sig_val.val * 2 ^ (i - 1),
                      error |-> bus_val.error + sig_val.error * 2 ^ (i - 1)])

val(sigs) == val_from(sigs, 1, new_val(0))

\* BusValue::sig: the signal of bit i (counted from 0).
BusValue_sig(bus_val, i) ==
    IF Bit(bus_val.error, i) = 1 THEN "Error"
    ELSE IF Bit(bus_val.val, i) = 1 THEN "High"
    ELSE "Low"

\* ------------------------------------------------------------ the RAM part
\* IcCY7C199: the indices of its pins in its slice, counted from 0 as in the
\* code (pins[k + 1] is the code's pins[k]).
CE_INV == 0

OE_INV == 1

WE_INV == 2

IO_START == 3

WORD_SIZE == 8

IO_END == IO_START + WORD_SIZE

ADDR_START == IO_END

ADDR_SIZE == 15

ADDR_END == ADDR_START + ADDR_SIZE

NUM_PINS == ADDR_END

\* The vector ram the updater closure owns, kept as the words stored so far:
\* a word that was never stored holds what vec![0xff; NUM_WORDS] put there.
NewRam == [a \in {} |-> 0]

\* ram[addr]
ram_word(ram, addr) == IF addr \in DOMAIN ram THEN ram[addr] ELSE 255

\* Variant of ram_store: word 0 is stored to, whatever the address.
ram_store_first(ram, addr, data) ==
    [a \in DOMAIN ram \cup {0} |-> IF a = 0 THEN data % 256 ELSE ram[a]]

\* ram[addr] = data as u8
ram_store(ram, addr, data) ==
    [a \in DOMAIN ram \cup {addr} |-> IF a = addr THEN data % 256 ELSE ram[a]]

\* IcCY7C199::set_io
set_io(states, v) ==
    [i \in DOMAIN states |-> IF i > IO_START /\ i <= IO_END THEN v ELSE states[i]]

\* IcCY7C199::set_output and set_input on the IO pins of the slice.
IcCY7C199_set_output(pins, v) ==
    [i \in DOMAIN pins |->
        IF i > IO_START /\ i <= IO_END
        THEN Output(BusValue_sig(new_val(v), i - IO_START - 1)) ELSE pins[i]]

IcCY7C199_set_input(pins, v) ==
    [i \in DOMAIN pins |->
        IF i > IO_START /\ i <= IO_END
        THEN Input(BusValue_sig(new_val(v), i - IO_START - 1)) ELSE pins[i]]

\* The BusValue on pins[lo + 1 .. hi] of a slice.
pins_val(pins, lo, hi) == val([i \in 1 .. hi - lo |-> sig(pins[lo + i])])

\* IcCY7C199::update on the vector ram and the part's slice: panic names the
\* unwrap that failed ("io" or "addr"), "none" when the update returned.
IcCY7C199_update(ram, pins) ==
    LET ce == not(sig(pins[CE_INV + 1]))
        oe == not(sig(pins[OE_INV + 1]))
        we == not(sig(pins[WE_INV + 1]))
        data == pins_val(pins, IO_START, IO_END)
        addr == pins_val(pins, ADDR_START, ADDR_END)
    IN IF data.error # 0 THEN [panic |-> "io", ram |-> ram, pins |-> pins]
       ELSE IF addr.error # 0 THEN [panic |-> "addr", ram |-> ram, pins |-> pins]
       ELSE IF is_lowish(ce)
       THEN [panic |-> "none", ram |-> ram, pins |-> set_io(pins, HiZ)]
       ELSE IF is_high(oe)
       THEN [panic |-> "none", ram |-> ram,
             pins |-> IcCY7C199_set_output(pins, ram_word(ram, addr.val))]
       ELSE [panic |-> "none",
             ram |-> IF is_high(we) THEN ram_store(ram, addr.val, data.val)
                     ELSE ram,
             pins |-> IcCY7C199_set_input(pins, data.val)]

\* IcCY7C199::new on a graph record: the part owns a vector ram.
IcCY7C199_new(g) ==
    LET states == set_io([i \in 1 .. NUM_PINS |-> INPUT], HiZ)
        g1 == new_part(g, "ram", WORD_SIZE, states)
    IN [g1 EXCEPT !.parts[Len(g1.parts)] =
            [kind |-> @.kind, width |-> @.width, start |-> @.start,
             end |-> @.end, ram |-> NewRam]]

\* GraphImpl::update_parts on a graph with RAM parts: parts i .. in creation
\* order, a RAM updater working on its own vector as well.
RECURSIVE ram_update_parts(_, _, _)
ram_update_parts(ps, pts, i) ==
    IF i > Len(pts) THEN [panic |-> "none", pin_states |-> ps, parts |-> pts]
    ELSE IF pts[i].kind # "ram"
    THEN ram_update_parts(part_step(ps, pts[i]), pts, i + 1)
    ELSE LET p == pts[i]
             u == IcCY7C199_update(p.ram, SubSeq(ps, p.start, p.end - 1))
         IN IF u.panic # "none"
            THEN [panic |-> u.panic, pin_states |-> ps, parts |-> pts]
            ELSE ram_update_parts(
                    SubSeq(ps, 1, p.start - 1) \o u.pins
                        \o SubSeq(ps, p.end, Len(ps)),
                    [pts EXCEPT ![i].ram = u.ram], i + 1)

\* Graph::tick on a graph with RAM parts.
ram_tick(ps, ns, pts) ==
    LET u == ram_update_parts(ps, pts, 1)
    IN IF u.panic # "none"
       THEN [panic |-> u.panic, update_count |-> 0, pin_states |-> ps,
             nodes |-> ns, parts |-> pts]
       ELSE LET r == update_nodes(u.pin_states, ns)
            IN [panic |-> "none", update_count |-> r.update_count,
                pin_states |-> r.pin_states, nodes |-> r.nodes,
                parts |-> u.parts]

\* ------------------------------------------------- the 74193 and its adders
\* A constructor is modelled by the calls it makes on the graph, in the
\* order it makes them: n is the number of pins made before it is called,
\* ops the calls, end the number of pins after it, and the further fields
\* are the pins its struct hands out.
NewPinOp(state) == [op |-> "new_pin", state |-> state]

NewPartOp(kind, width) == [op |-> "new_part", kind |-> kind, width |-> width]

ConnectOp(a, b) == [op |-> "connect", a |-> a, b |-> b]

NewRamOp == [op |-> "new_ram"]

\* One call on the graph record g.
build_step(g, o) ==
    CASE o.op = "new_pin" -> new_pin(g, o.state)
      [] o.op = "new_part" ->
            new_part(g, o.kind, o.width, InitialStates(o.kind, o.width))
      [] o.op = "connect" -> Graph_connect(g, o.a, o.b).g
      [] o.op = "new_ram" -> IcCY7C199_new(g)

\* The calls lo .. hi one after the other (the range is halved to keep the
\* evaluation shallow).
RECURSIVE build_range(_, _, _, _)
build_range(g, ops, lo, hi) ==
    IF lo > hi THEN g
    ELSE IF lo = hi THEN build_step(g, ops[lo])
    ELSE Bind(Force(build_range(g, ops, lo, (lo + hi) \div 2)),
              LAMBDA g2 : build_range(g2, ops, (lo + hi) \div 2 + 1, hi))

\* The graph without pins (Graph::new).
EmptyGraph ==
    [pin_states |-> <<>>, nodes |-> [n \in {} |-> NewNode(0)], next_node |-> 0,
     pin_nodes |-> <<>>, parts |-> <<>>]

\* The graph a sequence of calls builds from the empty graph.
build(ops) == build_range(EmptyGraph, ops, 1, Len(ops))

\* Graph::connect_all: every further pin is merged into the node of the
\* first.
connect_all(pins) == [i \in 1 .. Len(pins) - 1 |-> ConnectOp(pins[1], pins[i + 1])]

\* Pin::connect_all: the others among themselves, then self to the first.
Pin_connect_all(self, others) ==
    connect_all(others) \o <<ConnectOp(self, others[1])>>

\* Graph::connect_pairs
connect_pairs(pairs) == [i \in 1 .. Len(pairs) |-> ConnectOp(pairs[i][1], pairs[i][2])]

\* NaryGate::connect_inputs: pins[i] to input i of the gate whose pins start
\* at start (OUTPUT first, INPUTS from index 1).
connect_inputs(start, pins) ==
    [i \in 1 .. Len(pins) |-> ConnectOp(pins[i], start + i)]

\* Variant of Pin_not: the pin is not connected to the input of the gate.
Pin_not_open(n, self) ==
    [ops |-> <<NewPartOp("not", 1)>>, out |-> n + 2, end |-> n + 2]

\* impl Not for &Pin: a new not gate with the pin connected to its input;
\* out is its output pin.
Pin_not(n, self) ==
    [ops |-> <<NewPartOp("not", 1), ConnectOp(self, n + 1)>>,
     out |-> n + 2, end |-> n + 2]

\* Variant of Pin_bitand: rhs is not connected to the gate.
Pin_bitand_open(n, self, rhs) ==
    [ops |-> <<NewPartOp("and", 1), ConnectOp(self, n + 1)>>,
     out |-> n + 3, end |-> n + 3]

\* impl BitAnd for &Pin
Pin_bitand(n, self, rhs) ==
    [ops |-> <<NewPartOp("and", 1), ConnectOp(self, n + 1),
               ConnectOp(rhs, n + 2)>>,
     out |-> n + 3, end |-> n + 3]

\* Variant of Pin_bitor: self is not connected to the gate.
Pin_bitor_open(n, self, rhs) ==
    [ops |-> <<NewPartOp("or", 1), ConnectOp(rhs, n + 2)>>,
     out |-> n + 3, end |-> n + 3]

\* impl BitOr for &Pin
Pin_bitor(n, self, rhs) ==
    [ops |-> <<NewPartOp("or", 1), ConnectOp(self, n + 1),
               ConnectOp(rhs, n + 2)>>,
     out |-> n + 3, end |-> n + 3]

\* HalfAdder::new
HalfAdder_new(n) ==
    LET input == n + 1
        clear == n + 2
        load == n + 3
        ff == n + 4
    IN Bind(Pin_bitand(ff + TOGGLE_PREV, input, load), LAMBDA and1 :
       Bind(Pin_bitand(and1.end, and1.out, clear), LAMBDA and2 :
       Bind(Pin_not(and2.end, and2.out), LAMBDA use_input :
       Bind(Pin_not(use_input.end, use_input.out), LAMBDA set :
       Bind(Pin_bitand(set.end, use_input.out, load), LAMBDA and3 :
       Bind(Pin_not(and3.end, and3.out), LAMBDA load_ff :
       Bind(Pin_not(load_ff.end, clear), LAMBDA not_clear :
       Bind(Pin_not(not_clear.end, load_ff.out), LAMBDA not_load_ff :
       Bind(Pin_bitor(not_load_ff.end, not_clear.out, not_load_ff.out),
            LAMBDA reset_ff :
           [ops |-> <<NewPinOp(INPUT), NewPinOp(INPUT), NewPinOp(INPUT),
                      NewPartOp("tff", 1)>>
                    \o and1.ops \o and2.ops \o use_input.ops \o set.ops
                    \o and3.ops \o load_ff.ops \o not_clear.ops
                    \o not_load_ff.ops \o reset_ff.ops
                    \o <<ConnectOp(set.out, ff + SET),
                         ConnectOp(reset_ff.out, ff + RESET)>>,
            end |-> reset_ff.end,
            input |-> input, clear |-> clear, load |-> load,
            toggle |-> ff + TOGGLE, output |-> ff + OUTPUT_Q,
            out_inv |-> ff + OUT_INV])))))))))

\* FullAdder::new
FullAdder_new(n) ==
    LET up == n + 1
        down == n + 2
        up_cond == n + 3
        down_cond == n + 4
    IN Bind(HalfAdder_new(n + 4), LAMBDA half_adder :
       Bind(Pin_bitand(half_adder.end, up, up_cond), LAMBDA and_up :
       Bind(Pin_bitand(and_up.end, down, down_cond), LAMBDA and_down :
       Bind(Pin_bitor(and_down.end, and_up.out, and_down.out), LAMBDA either :
       Bind(Pin_not(either.end, either.out), LAMBDA toggle :
           [ops |-> <<NewPinOp(INPUT), NewPinOp(INPUT), NewPinOp(INPUT),
                      NewPinOp(INPUT)>>
                    \o half_adder.ops \o and_up.ops \o and_down.ops
                    \o either.ops \o toggle.ops
                    \o <<ConnectOp(toggle.out, half_adder.toggle)>>,
            end |-> toggle.end,
            up |-> up, down |-> down, up_cond |-> up_cond,
            down_cond |-> down_cond, input |-> half_adder.input,
            clear |-> half_adder.clear, load |-> half_adder.load,
            output |-> half_adder.output, out_inv |-> half_adder.out_inv])))))

\* Ic74193::new
Ic74193_new(n) ==
    LET up_inv == n + 1
        down_inv == n + 3
        load == n + 5
        clear_inv == n + 7
    IN Bind(HalfAdder_new(n + 8), LAMBDA adder1 :
       Bind(FullAdder_new(adder1.end), LAMBDA adder2 :
       Bind(FullAdder_new(adder2.end), LAMBDA adder3 :
       Bind(FullAdder_new(adder3.end), LAMBDA adder4 :
       Bind(adder4.end + 1, LAMBDA carry :
       Bind(carry + 6, LAMBDA borrow :
       Bind(Pin_bitor(borrow + 5, up_inv + 1, down_inv + 1), LAMBDA either :
       Bind(Pin_not(either.end, either.out), LAMBDA toggle1 :
       Bind(Pin_bitand(toggle1.end, adder1.output, adder2.output),
            LAMBDA up_cond3 :
       Bind(Pin_bitand(up_cond3.end, adder1.out_inv, adder2.out_inv),
            LAMBDA down_cond3 :
       Bind(Pin_bitand(down_cond3.end, up_cond3.out, adder3.output),
            LAMBDA up_cond4 :
       Bind(Pin_bitand(up_cond4.end, down_cond3.out, adder3.out_inv),
            LAMBDA down_cond4 :
           [ops |-> <<NewPartOp("not", 1), NewPartOp("not", 1),
                      NewPartOp("not", 1), NewPartOp("not", 1)>>
                    \o adder1.ops \o adder2.ops \o adder3.ops \o adder4.ops
                    \o <<NewPartOp("nand_nary", 5)>>
                    \o connect_inputs(carry,
                           <<up_inv + 1, adder1.output, adder2.output,
                             adder3.output, adder4.output>>)
                    \o <<NewPartOp("nand_nary", 5)>>
                    \o connect_inputs(borrow,
                           <<down_inv + 1, adder1.out_inv, adder2.out_inv,
                             adder3.out_inv, adder4.out_inv>>)
                    \o either.ops \o toggle1.ops
                    \o <<ConnectOp(toggle1.out, adder1.toggle),
                         ConnectOp(adder1.output, adder2.up_cond),
                         ConnectOp(adder1.out_inv, adder2.down_cond)>>
                    \o up_cond3.ops \o down_cond3.ops
                    \o <<ConnectOp(up_cond3.out, adder3.up_cond),
                         ConnectOp(down_cond3.out, adder3.down_cond)>>
                    \o up_cond4.ops \o down_cond4.ops
                    \o <<ConnectOp(up_cond4.out, adder4.up_cond),
                         ConnectOp(down_cond4.out, adder4.down_cond)>>
                    \o Pin_connect_all(up_inv + 1,
                           <<adder2.up, adder3.up, adder4.up>>)
                    \o Pin_connect_all(down_inv + 1,
                           <<adder2.down, adder3.down, adder4.down>>)
                    \o Pin_connect_all(load + 1,
                           <<adder1.load, adder2.load, adder3.load,
                             adder4.load>>)
                    \o Pin_connect_all(clear_inv + 1,
                           <<adder1.clear, adder2.clear, adder3.clear,
                             adder4.clear>>),
            end |-> down_cond4.end,
            up |-> up_inv, down |-> down_inv, load_inv |-> load,
            clear |-> clear_inv, carry |-> carry, borrow |-> borrow,
            input |-> <<adder1.input, adder2.input, adder3.input,
                        adder4.input>>,
            output |-> <<adder1.output, adder2.output, adder3.output,
                         adder4.output>>]))))))))))))

\* The bits of v as the states of width output pins, least-significant
\* first.
Bits(v, width) == [i \in 1 .. width |-> Output(BusValue_sig(new_val(v), i - 1))]

\* The pins of the circuit of test_load: four data pins, the pins load_inv,
\* clear, up and down, and a 74193.
LoadPins ==
    [d |-> <<1, 2, 3, 4>>, load_inv |-> 5, clear |-> 6, up |-> 7, down |-> 8,
     counter |-> Ic74193_new(8)]

\* The circuit of test_load, its data pins putting out the bits of v and its
\* other pins High.
LoadCircuit(v) ==
    LET c == LoadPins.counter
    IN build([i \in 1 .. 4 |-> NewPinOp(Bits(v, 4)[i])]
             \o [i \in 1 .. 4 |-> NewPinOp(Output("High"))]
             \o c.ops
             \o connect_pairs(<<<<LoadPins.up, c.up>>, <<LoadPins.down, c.down>>,
                                <<LoadPins.load_inv, c.load_inv>>,
                                <<LoadPins.clear, c.clear>>,
                                <<1, c.input[1]>>, <<2, c.input[2]>>,
                                <<3, c.input[3]>>, <<4, c.input[4]>>>>))

\* ------------------------------------------------ run() as one operation
\* Graph::run() from the tick count, updates and fingerprints so far: the
\* loop runs until a tick updates no node (stop "steady") or a fingerprint
\* repeats (stop "cycle"); stop "none" marks a loop cut off at MaxTicks.
RECURSIVE run_loop(_, _, _, _, _)
run_loop(ps, ns, pts, st, hashes) ==
    IF st.ticks >= MaxTicks
    THEN [pin_states |-> ps, nodes |-> ns, stats |-> st, stop |-> "none"]
    ELSE Bind(tick(ps, ns, pts), LAMBDA r :
        LET n == r.update_count
            ticks == st.ticks + 1
            hash == StateHash(r.pin_states, r.nodes)
        IN IF n = 0
           THEN [pin_states |-> r.pin_states, nodes |-> r.nodes,
                 stats |-> st, stop |-> "steady"]
           ELSE IF hash \in DOMAIN hashes
           THEN [pin_states |-> r.pin_states, nodes |-> r.nodes,
                 stats |-> [ticks |-> ticks, updates |-> st.updates + n,
                            cycle |-> CycleLength(ticks, hashes[hash])],
                 stop |-> "cycle"]
           ELSE run_loop(r.pin_states, r.nodes, pts,
                         [ticks |-> ticks, updates |-> st.updates + n,
                          cycle |-> 0],
                         [h \in DOMAIN hashes \cup {hash} |->
                             IF h = hash THEN ticks ELSE hashes[h]]))

\* Graph::run() on a graph record: the graph after it, with the RunStats
\* returned.
Graph_run(g) ==
    Bind(run_loop(g.pin_states, g.nodes, g.parts, RunStatsInit, NoHashes),
         LAMBDA r : [g |-> [g EXCEPT !.pin_states = r.pin_states,
                                     !.nodes = r.nodes],
                     stats |-> r.stats, stop |-> r.stop])

\* Graph::pulse_output(pin) on a graph record, for a pin in Output state:
\* flip, run, flip, run.
pulse_output(g, pin) ==
    Bind(Graph_run(flip_output(g, pin).g), LAMBDA first :
        Bind(Graph_run(flip_output(first.g, pin).g), LAMBDA second :
            [g |-> second.g, first |-> first, second |-> second]))

\* Graph::flash_output(pin) on a graph record, for a pin in Output state:
\* flip, one tick, flip.
flash_output(g, pin) ==
    Bind(flip_output(g, pin).g, LAMBDA g1 :
        Bind(tick(g1.pin_states, g1.nodes, g1.parts), LAMBDA r :
            flip_output([g1 EXCEPT !.pin_states = r.pin_states,
                                   !.nodes = r.nodes], pin).g))

\* A circuit built in one piece: the state after its construction.
Built(g) ==
    /\ pin_states = g.pin_states
    /\ nodes = g.nodes
    /\ next_node = g.next_node
    /\ pin_nodes = g.pin_nodes
    /\ parts = g.parts
    /\ pc = "idle"
    /\ stats = NoStats
    /\ state_hashes = NoHashes
    /\ stop = "none"
    /\ phase = "built"
    /\ pulse = NoPulse

\* Graph::run(), the whole call: it is made after the construction and
\* after every change of a pin.
RunAll ==
    /\ pc = "idle"
    /\ \E r \in {Graph_run(Graph)} :
         /\ SetGraph(r.g)
         /\ pc' = IF r.stop = "none" THEN "run" ELSE "done"
         /\ stats' = r.stats
         /\ stop' = r.stop
    /\ state_hashes' = NoHashes
    /\ phase' = IF phase = "built" THEN "first" ELSE "later"
    /\ pulse' = NoPulse

\* Graph::set_output(pin, signal) on pin p of a circuit at rest after a
\* run().
SetPin(p, s) ==
    /\ pc \in {"done", "pulsed"}
    /\ pin_states[p] # Output(s)
    /\ \E r \in {set_output(Graph, p, s)} :
         /\ SetGraph(r.g)
         /\ Forget(IF r.panic THEN "set_output_panic" ELSE "idle")
    /\ Touch

\* Graph::pulse_output(pin), the whole call, on pin p of a circuit at rest
\* after a run().
PulsePin(p) ==
    /\ pc \in {"done", "pulsed"}
    /\ \E r \in {pulse_output(Graph, p)} :
         /\ SetGraph(r.g)
         /\ pc' = IF "none" \in {r.first.stop, r.second.stop}
                  THEN "run" ELSE "pulsed"
         /\ stats' = RunStats_add(r.first.stats, r.second.stats)
         /\ stop' = r.second.stop
         /\ pulse' = [pin |-> p, step |-> 3, before |-> pin_states[p],
                      first |-> r.first.stats, second |-> r.second.stats]
    /\ state_hashes' = NoHashes
    /\ phase' = "later"

\* ------------------------------------------------------- the 74193 loaded
\* The circuit of test_load with any value on its data pins: Up and Down
\* stay High, Clear and LoadInv are set and the circuit is run after each
\* change.
LoadInit == \E v \in 0 .. 15 : Built(LoadCircuit(v))

LoadNext ==
    \/ RunAll
    \/ \E s \in {"Low", "High"} : SetPin(LoadPins.clear, s)
    \/ \E s \in {"Low", "High"} : SetPin(LoadPins.load_inv, s)

SpecLoad == LoadInit /\ [][LoadNext]_vars

\* ---------------------------------------------------------------------- C21
\* The BusValue of the signals of a sequence of pins (Pin::sig is the signal
\* of the pin's state), least-significant first.
Reading(pins) == val([i \in 1 .. Len(pins) |-> sig(pin_states[pins[i]])])

PinIs(p, s) == pin_states[p] = Output(s)

LoadQ == Reading(LoadPins.counter.output)

LoadIn == Reading(LoadPins.d)

\* C21: with Up and Down held High and Clear Low after having been High,
\* the run() that follows LoadInv = Low leaves the outputs Q at the value v
\* of the data pins, and a run() that starts with Q at v and Clear Low (as
\* the one after LoadInv goes back to High) leaves Q at v.
C21_LoadStoresInput ==
    [][ (pc' = "done" /\ PinIs(LoadPins.clear, "Low")') =>
          /\ PinIs(LoadPins.load_inv, "Low")' => LoadQ' = LoadIn'
          /\ (PinIs(LoadPins.clear, "Low") /\ LoadQ = LoadIn) => LoadQ' = LoadIn'
      ]_vars

C21_Witness ==
    /\ pc = "done" /\ stop = "steady"
    /\ PinIs(LoadPins.clear, "Low") /\ PinIs(LoadPins.load_inv, "High")
    /\ LoadIn = new_val(9) /\ LoadQ = new_val(9)

\* ------------------------------------------------------ the 74193 counting
\* The circuit of test_load with one of two complementary values on its
\* data pins: Clear and LoadInv are set, each change followed by run(), and
\* Up and Down are pulsed (Low, run(), High, run()).
CountIn == {5, 10}

CountInit == \E v \in CountIn : Built(LoadCircuit(v))

CountNext ==
    \/ RunAll
    \/ \E s \in {"Low", "High"} : SetPin(LoadPins.clear, s)
    \/ \E s \in {"Low", "High"} : SetPin(LoadPins.load_inv, s)
    \/ PulsePin(LoadPins.up)
    \/ PulsePin(LoadPins.down)

SpecCount == CountInit /\ [][CountNext]_vars

\* ---------------------------------------------------------------------- C22
\* A call has returned and its last run() ended in steady state.
Steady == pc \in {"done", "pulsed"} /\ stop = "steady"

\* C22: from a steady state with LoadInv High, Clear Low and reading q, the
\* cycle Up = Low, run(), Up = High, run() leaves the reading at q + 1 mod
\* 16 and the same cycle on Down leaves it at q - 1 mod 16; both runs end
\* in steady state with cycle = 0.
C22_PulseCounts ==
    [][ ( /\ pc' = "pulsed" /\ Steady
          /\ PinIs(LoadPins.load_inv, "High") /\ PinIs(LoadPins.clear, "Low")
          /\ PinIs(LoadPins.up, "High") /\ PinIs(LoadPins.down, "High")
          /\ LoadQ.error = 0 ) =>
          /\ stop' = "steady"
          /\ pulse'.first.cycle = 0 /\ pulse'.second.cycle = 0
          /\ pulse'.pin = LoadPins.up =>
                LoadQ' = new_val((LoadQ.val + 1) % 16)
          /\ pulse'.pin = LoadPins.down =>
                LoadQ' = new_val((LoadQ.val + 15) % 16)
      ]_vars

\* Up has been pulsed from the reading 15 and Down from the reading 0.
C22_Witness ==
    /\ pc = "pulsed" /\ pulse.pin = LoadPins.up
    /\ PinIs(LoadPins.load_inv, "High") /\ PinIs(LoadPins.clear, "Low")
    /\ LoadQ = new_val(0)

\* ---------------------------------------------------------------------- C23
\* C23: in every steady state reached by run() while Clear is High, the
\* four outputs Q1..Q4 are Low.
C23_ClearHolds ==
    (Steady /\ PinIs(LoadPins.clear, "High")) =>
        \A i \in 1 .. 4 : sig(pin_states[LoadPins.counter.output[i]]) = "Low"

\* Down has been pulsed while Clear was High and LoadInv Low.
C23_Witness ==
    /\ pc = "pulsed" /\ stop = "steady" /\ pulse.pin = LoadPins.down
    /\ PinIs(LoadPins.clear, "High") /\ PinIs(LoadPins.load_inv, "Low")
    /\ LoadIn = new_val(10)

\* ------------------------------------------------------ chained counters
\* Variant of Counter8Bit_new: the carry of the first 74193 is not wired to
\* the second.
Counter8Bit_new_no_carry(n) ==
    Bind(Ic74193_new(n), LAMBDA counter1 :
    Bind(Ic74193_new(counter1.end), LAMBDA counter2 :
        [ops |-> counter1.ops \o counter2.ops
                 \o connect_pairs(<<<<counter1.borrow, counter2.down>>,
                                    <<counter1.load_inv, counter2.load_inv>>,
                                    <<counter1.clear, counter2.clear>>>>),
         end |-> counter2.end,
         up |-> counter1.up, down |-> counter1.down,
         load_inv |-> counter1.load_inv, clear |-> counter1.clear,
         carry |-> counter2.carry, borrow |-> counter2.borrow,
         input |-> counter1.input \o counter2.input,
         output |-> counter1.output \o counter2.output]))

\* Counter8Bit::new: two 74193, the carry and borrow of the first wired to
\* the up and down of the second.
Counter8Bit_new(n) ==
    Bind(Ic74193_new(n), LAMBDA counter1 :
    Bind(Ic74193_new(counter1.end), LAMBDA counter2 :
        [ops |-> counter1.ops \o counter2.ops
                 \o connect_pairs(<<<<counter1.carry, counter2.up>>,
                                    <<counter1.borrow, counter2.down>>,
                                    <<counter1.load_inv, counter2.load_inv>>,
                                    <<counter1.clear, counter2.clear>>>>),
         end |-> counter2.end,
         up |-> counter1.up, down |-> counter1.down,
         load_inv |-> counter1.load_inv, clear |-> counter1.clear,
         carry |-> counter2.carry, borrow |-> counter2.borrow,
         input |-> counter1.input \o counter2.input,
         output |-> counter1.output \o counter2.output]))

\* Counter16Bit::new: two 8-bit counters chained the same way.
Counter16Bit_new(n) ==
    Bind(Counter8Bit_new(n), LAMBDA counter1 :
    Bind(Counter8Bit_new(counter1.end), LAMBDA counter2 :
        [ops |-> counter1.ops \o counter2.ops
                 \o connect_pairs(<<<<counter1.carry, counter2.up>>,
                                    <<counter1.borrow, counter2.down>>,
                                    <<counter1.load_inv, counter2.load_inv>>,
                                    <<counter1.clear, counter2.clear>>>>),
         end |-> counter2.end,
         up |-> counter1.up, down |-> counter1.down,
         load_inv |-> counter1.load_inv, clear |-> counter1.clear,
         carry |-> counter2.carry, borrow |-> counter2.borrow,
         input |-> counter1.input \o counter2.input,
         output |-> counter1.output \o counter2.output]))

\* The pins of test_counter_8bit and test_counter_16bit: up, down, clear and
\* load_inv, made before the counter.
ChainPins == [up |-> 1, down |-> 2, clear |-> 3, load_inv |-> 4]

\* The counter of test_counter_8bit, made after those pins.
ChainCounter8 == Counter8Bit_new(ChainPins.load_inv)

\* The counter of test_counter_16bit, made after those pins.
ChainCounter16 == Counter16Bit_new(ChainPins.load_inv)

\* The circuit of test_counter_8bit (W = 8) and of test_counter_16bit
\* (W = 16): the four pins put out High and are connected to the counter.
ChainCircuit(counter) ==
    build([i \in 1 .. 4 |-> NewPinOp(Output("High"))]
          \o counter.ops
          \o connect_pairs(<<<<ChainPins.up, counter.up>>,
                             <<ChainPins.down, counter.down>>,
                             <<ChainPins.clear, counter.clear>>,
                             <<ChainPins.load_inv, counter.load_inv>>>>))

\* The counter of the circuit the state holds.
ChainCounter ==
    Bind(ChainCounter8, LAMBDA c :
        IF Len(pin_states) = c.end THEN c ELSE ChainCounter16)

ChainQ == Reading(ChainCounter.output)

\* 2^W for the width W of the counter.
ChainSize == 2 ^ Len(ChainCounter.output)

\* The reading as a count of pulses, Down pulses counted negative.
ChainCount ==
    Bind(ChainQ.val, LAMBDA v :
        Bind(ChainSize, LAMBDA size : IF 2 * v < size THEN v ELSE v - size))

\* The counts of pulses explored: -MaxDown8 .. MaxUp8 on the 8-bit counter
\* and -MaxDown16 .. MaxUp16 on the 16-bit counter.
MaxUp == IF Len(ChainCounter.output) = 8 THEN MaxUp8 ELSE MaxUp16

MaxDown == IF Len(ChainCounter.output) = 8 THEN MaxDown8 ELSE MaxDown16

\* flash_output(pin) followed by run(), the whole of both calls, on pin p of
\* a circuit at rest: pulse records the pin, step 4 and what run() returned.
FlashPin(p) ==
    /\ pc \in {"done", "pulsed"}
    /\ \E r \in {Graph_run(flash_output(Graph, p))} :
         /\ SetGraph(r.g)
         /\ pc' = IF r.stop = "none" THEN "run" ELSE "done"
         /\ stats' = r.stats
         /\ stop' = r.stop
         /\ pulse' = [pin |-> p, step |-> 4, before |-> pin_states[p],
                      first |-> NoStats, second |-> r.stats]
    /\ state_hashes' = NoHashes
    /\ phase' = "later"

\* The counter has been cleared and counts: LoadInv is High and Clear Low.
Counting ==
    /\ pc \in {"done", "pulsed"}
    /\ PinIs(ChainPins.clear, "Low") /\ PinIs(ChainPins.load_inv, "High")

ChainInit ==
    \/ Built(ChainCircuit(ChainCounter8))
    \/ Built(ChainCircuit(ChainCounter16))

\* run() after the construction, Clear set Low and run(), then pulses of
\* either kind on Up and Down while the count of pulses is within -MaxDown
\* .. MaxUp.
ChainNext ==
    \/ RunAll
    \/ SetPin(ChainPins.clear, "Low")
    \/ Counting /\ ChainCount < MaxUp /\ PulsePin(ChainPins.up)
    \/ Counting /\ ChainCount < MaxUp /\ FlashPin(ChainPins.up)
    \/ Counting /\ ChainCount > -MaxDown /\ PulsePin(ChainPins.down)
    \/ Counting /\ ChainCount > -MaxDown /\ FlashPin(ChainPins.down)

SpecChain == ChainInit /\ [][ChainNext]_vars

\* ---------------------------------------------------------------------- C24
\* A pulse of either kind on pin p has just returned.
Pulsed(p) ==
    /\ pulse.pin = p
    /\ \/ pc = "pulsed" /\ pulse.step = 3
       \/ pc = "done" /\ pulse.step = 4

RamPins ==
    [ce_inv |-> NUM_PINS + 1, oe_inv |-> NUM_PINS + 2, we_inv |-> NUM_PINS + 3,
     d |-> [i \in 1 .. WORD_SIZE |-> NUM_PINS + 3 + i],
     a2 |-> NUM_PINS + 3 + WORD_SIZE + 1,
     ram |-> [ce_inv |-> CE_INV + 1, oe_inv |-> OE_INV + 1,
              we_inv |-> WE_INV + 1,
              io |-> [i \in 1 .. WORD_SIZE |-> IO_START + i],
              addr |-> [i \in 1 .. ADDR_SIZE |-> ADDR_START + i]]]

\* The bytes put on the data pins.
RamData == {0, 4}

\* The RAM with its pins connected as in test_read_write: ce_inv, oe_inv
\* and we_inv put out ce, oe and we, the data pins the byte v and a2 the
\* signal a.
RamCircuit(ce, oe, we, v, a) ==
    build(<<NewRamOp, NewPinOp(Output(ce)), NewPinOp(Output(oe)),
            NewPinOp(Output(we))>>
          \o [i \in 1 .. WORD_SIZE |-> NewPinOp(Bits(v, WORD_SIZE)[i])]
          \o <<NewPinOp(Output(a))>>
          \o connect_pairs(<<<<RamPins.ce_inv, RamPins.ram.ce_inv>>,
                             <<RamPins.oe_inv, RamPins.ram.oe_inv>>,
                             <<RamPins.we_inv, RamPins.ram.we_inv>>>>)
          \o [i \in 1 .. WORD_SIZE |->
                 ConnectOp(RamPins.d[i], RamPins.ram.io[i])]
          \o <<ConnectOp(RamPins.a2, RamPins.ram.addr[3])>>)

\* Graph::set_output(pin, signal) on pin p, between runs.
RamSet(p, s) ==
    /\ Idle
    /\ pin_states[p] # Output(s)
    /\ \E r \in {set_output(Graph, p, s)} :
         /\ SetGraph(r.g)
         /\ Forget(IF r.panic THEN "set_output_panic" ELSE "idle")
    /\ Touch

\* set_output on each of the data pins: they put out the byte v.
RamSetData(v) ==
    /\ Idle
    /\ \E i \in 1 .. WORD_SIZE : pin_states[RamPins.d[i]] # Bits(v, WORD_SIZE)[i]
    /\ pin_states' = [p \in DOMAIN pin_states |->
                        IF p > RamPins.we_inv /\ p < RamPins.a2
                        THEN Bits(v, WORD_SIZE)[p - RamPins.we_inv]
                        ELSE pin_states[p]]
    /\ Forget("idle")
    /\ Touch
    /\ UNCHANGED <<nodes, next_node, pin_nodes, parts>>

\* Graph::run() on a graph with a RAM: one iteration of the loop; a failed
\* unwrap in the updater ends the program.
RamRunLoop ==
    /\ pc = "run" /\ stats.ticks < MaxTicks
    /\ \E r \in {ram_tick(pin_states, nodes, parts)} :
       LET n == r.update_count
           ticks == stats.ticks + 1
           hash == StateHash(r.pin_states, r.nodes)
       IN
         /\ pin_states' = r.pin_states
         /\ nodes' = r.nodes
         /\ parts' = r.parts
         /\ IF r.panic # "none"
            THEN /\ pc' = "update_panic" /\ stop' = "none"
                 /\ UNCHANGED <<stats, state_hashes>>
            ELSE IF n = 0
            THEN /\ pc' = "done" /\ stop' = "steady"
                 /\ state_hashes' = NoHashes
                 /\ UNCHANGED stats
            ELSE IF hash \in DOMAIN state_hashes
            THEN /\ pc' = "done" /\ stop' = "cycle"
                 /\ state_hashes' = NoHashes
                 /\ stats' = [ticks |-> ticks, updates |-> stats.updates + n,
                              cycle |-> CycleLength(ticks, state_hashes[hash])]
            ELSE /\ pc' = "run" /\ stop' = "none"
                 /\ state_hashes' = [h \in DOMAIN state_hashes \cup {hash} |->
                                       IF h = hash THEN ticks ELSE state_hashes[h]]
                 /\ stats' = [ticks |-> ticks, updates |-> stats.updates + n,
                              cycle |-> 0]
    /\ UNCHANGED <<next_node, pin_nodes, phase, pulse>>

RamInit ==
    \E ce \in {"Low", "High"}, oe \in {"Low", "High"}, we \in {"Low", "High"},
       v \in RamData, a \in {"Low", "High"} :
        Built(RamCircuit(ce, oe, we, v, a))

\* The pins are set between runs: ce_inv, oe_inv and we_inv to Low or High,
\* the data pins to a byte, a2 to Low, High or Error.
RamNext ==
    \/ RunBegin
    \/ RamRunLoop
    \/ \E s \in {"Low", "High"} : RamSet(RamPins.ce_inv, s)
    \/ \E s \in {"Low", "High"} : RamSet(RamPins.oe_inv, s)
    \/ \E s \in {"Low", "High"} : RamSet(RamPins.we_inv, s)
    \/ \E v \in RamData : RamSetData(v)
    \/ \E s \in {"Low", "High", "Error"} : RamSet(RamPins.a2, s)

SpecRam == RamInit /\ [][RamNext]_vars

\* The RAM circuit with Error signals on its pins: the first data pin is set
\* to Low, High or Error and a2 to Low or Error; the other data pins put out
\* Low.
RamErrInit ==
    \E ce \in {"Low", "High"}, oe \in {"Low", "High"}, we \in {"Low", "High"} :
        Built(RamCircuit(ce, oe, we, 0, "Low"))

RamErrNext ==
    \/ RunBegin
    \/ RamRunLoop
    \/ \E s \in {"Low", "High"} : RamSet(RamPins.ce_inv, s)
    \/ \E s \in {"Low", "High"} : RamSet(RamPins.oe_inv, s)
    \/ \E s \in {"Low", "High"} : RamSet(RamPins.we_inv, s)
    \/ \E s \in {"Low", "High", "Error"} : RamSet(RamPins.d[1], s)
    \/ \E s \in {"Low", "Error"} : RamSet(RamPins.a2, s)

SpecRamErr == RamErrInit /\ [][RamErrNext]_vars

\* ---------------------------------------------------------------------- C25
\* The vector of the RAM.
RamOf == parts[1].ram

\* The signals the pins ce_inv, oe_inv and we_inv put out.
RamCtl(ce, oe, we) ==
    /\ PinIs(RamPins.ce_inv, ce)
    /\ PinIs(RamPins.oe_inv, oe)
    /\ PinIs(RamPins.we_inv, we)

\* The byte the data pins put out and the address a2 puts out.
RamD == Reading(RamPins.d)

RamA == val([i \in 1 .. ADDR_SIZE |->
               IF i = 3 THEN sig(pin_states[RamPins.a2]) ELSE "Off"])

\* The states of the IO pins of the RAM.
RamIO == [i \in 1 .. WORD_SIZE |-> pin_states[RamPins.ram.io[i]]]

\* run() returns.
RunReturns == pc = "run" /\ pc' = "done"

\* A run() with the pins set for a write stores the byte on the data pins at
\* the address on the address pins.
RamWrites ==
    (RunReturns /\ RamCtl("Low", "High", "Low") /\ RamD.error = 0
        /\ RamA.error = 0) =>
        ram_word(RamOf', RamA.val) = RamD.val

\* A run() with the pins set for a read leaves the IO pins putting out the
\* word at the address on the address pins.
RamReads ==
    (RunReturns /\ RamCtl("Low", "Low", "High") /\ RamA.error = 0) =>
        RamIO' = Bits(ram_word(RamOf, RamA.val), WORD_SIZE)

\* C25: with CE_inv Low, WE_inv Low, OE_inv High and d and a on the IO and
\* address pins, run() stores d at a, and a run() with WE_inv High and
\* OE_inv Low then leaves the IO pins putting out the bits of d, from a
\* freshly built RAM as well as after earlier reads and writes.
C25_ReadAfterWrite == [][RamWrites /\ RamReads]_vars

\* ---------------------------------------------------------------------- C26
\* The signals the RAM reads on its pins CE_inv, OE_inv and WE_inv, and the
\* address it reads on its address pins.
RamSees(p) == sig(pin_states[p])

RamAddr == pins_val(pin_states, ADDR_START, ADDR_END)

\* This step is a tick at which the RAM is selected, its output disabled and
\* its write enabled, with address a on its address pins.
WriteTick(a) ==
    /\ pc = "run"
    /\ RamSees(RamPins.ram.ce_inv) = "Low"
    /\ RamSees(RamPins.ram.oe_inv) # "Low"
    /\ RamSees(RamPins.ram.we_inv) = "Low"
    /\ RamAddr = new_val(a)

\* C26: every RAM word is 0xFF until it is stored to, and a word is stored
\* to only by a tick at which the chip is selected, the output disabled and
\* the write enabled, with the word's address on the address pins; a run()
\* that reads an address never stored to leaves the IO pins putting out
\* 0xFF.
C26_UnwrittenReadsFF ==
    [][ /\ \A a \in DOMAIN RamOf' :
              (a \notin DOMAIN RamOf \/ RamOf'[a] # RamOf[a]) => WriteTick(a)
        /\ DOMAIN RamOf \subseteq DOMAIN RamOf'
        /\ (RunReturns /\ RamCtl("Low", "Low", "High") /\ RamA.error = 0
                /\ RamA.val \notin DOMAIN RamOf) =>
              RamIO' = Bits(255, WORD_SIZE)
      ]_vars

\* Word 0 has been stored to, and a run() that reads address 4 has left the
\* IO pins putting out 0xFF.
C26_Witness ==
    /\ pc = "done"
    /\ RamCtl("Low", "Low", "High")
    /\ RamA = new_val(4)
    /\ DOMAIN RamOf = {0}
    /\ RamIO = Bits(255, WORD_SIZE)

\* ---------------------------------------------------------------------- C27
\* C27: whenever the RAM reads High or Off on CE_inv at a part update (a
\* step of a run in progress) and no address bit is Error, the update
\* returns, all eight IO pins are HiZ after it and the contents of the RAM
\* are unchanged.
C27_DeselectedIsHiZ ==
    [][ (pc = "run" /\ RamSees(RamPins.ram.ce_inv) \in {"High", "Off"}
            /\ RamAddr.error = 0) =>
          /\ pc' # "update_panic"
          /\ RamIO' = [i \in 1 .. WORD_SIZE |-> HiZ]
          /\ RamOf' = RamOf
      ]_vars

\* ---------------------------------------------------------------------- C28
\* C28: when the RAM reads Low on CE_inv, OE_inv and WE_inv at a part update
\* that returns, the IO pins are HiZ after it: the stored byte is not put
\* out while a write is requested.
C28_ContentionIsHiZ ==
    [][ (pc = "run" /\ pc' # "update_panic"
            /\ RamSees(RamPins.ram.ce_inv) = "Low"
            /\ RamSees(RamPins.ram.oe_inv) = "Low"
            /\ RamSees(RamPins.ram.we_inv) = "Low") =>
          RamIO' = [i \in 1 .. WORD_SIZE |-> HiZ]
      ]_vars

\* ---------------------------------------------------------------------- C29
\* C29: a part update of the RAM ends the program only when an address bit
\* is Error; with Error on IO pins alone the update returns.
C29_IOErrorsIgnored ==
    [][ (pc = "run" /\ pc' = "update_panic") => RamAddr.error # 0 ]_vars

\* ------------------------------------------------------- the bus buffer
\* The circuit of test_bus_buffer: a bus buffer of the given width, then as
\* many pins that put out the bits of v, each connected to an input of the
\* buffer.
BusCircuit(width, v) ==
    build(<<NewPartOp("bus_buffer", width)>>
          \o [i \in 1 .. width |-> NewPinOp(Bits(v, width)[i])]
          \o [i \in 1 .. width |-> ConnectOp(2 * width + i, width + i)])

BusInit ==
    \E width \in 1 .. MaxBusWidth :
        \E v \in 0 .. 2 ^ width - 1 : Built(BusCircuit(width, v))

\* tick() is called, and the pins that feed the buffer are set.
BusNext == Tick \/ SetSource

SpecBus == BusInit /\ [][BusNext]_vars

\* ---------------------------------------------------------------------- C30
\* The width of the buffer, the BusValue on its output pins and the one on
\* the pins connected to its inputs.
BusWidth == parts[1].width

BusOut == Reading([i \in 1 .. BusWidth |-> i])

BusIn == Reading([i \in 1 .. BusWidth |-> 2 * BusWidth + i])

\* C30 as stated: W output pins with the bits of v are connected to the
\* inputs of a fresh bus buffer of width W; after one tick() the output pins
\* of the buffer read BusValue { val: v, error: 0 }.
C30_RoundTripOneTick ==
    [][ (phase = "built" /\ pc' = "ticked") => BusOut' = new_val(BusIn.val) ]_vars

\* C30, amended: after one tick() the outputs of the fresh buffer are all
\* Off and read BusValue { val: 0, error: 0 }; after a second tick() that
\* follows with no call in between they read BusValue { val: v, error: 0 }.
C30_RoundTripTwoTicks ==
    [][ /\ (phase = "built" /\ pc' = "ticked") =>
              /\ BusOut' = new_val(0)
              /\ \A i \in 1 .. BusWidth : pin_states'[i] = Output("Off")
        /\ (pc = "ticked" /\ pc' = "ticked") => BusOut' = new_val(BusIn.val)
      ]_vars

\* A buffer of width 3 reads 5 on its outputs, as on the pins that feed it.
C30_Witness ==
    /\ pc = "ticked"
    /\ BusWidth = 3
    /\ BusIn = new_val(5)
    /\ BusOut = new_val(5)

\* ------------------------------------------------------- the bus tristate
\* The circuit of test_bus_tristate for a width: the tristate, then width
\* pins putting out Low connected to its inputs, then the pin enable putting
\* out Low connected to en.
TriPins(width) ==
    [output |-> [i \in 1 .. width |-> i],
     input |-> [i \in 1 .. width |-> width + i],
     en |-> 2 * width + 1,
     inputs |-> [i \in 1 .. width |-> 2 * width + 1 + i],
     enable |-> 3 * width + 2]

TriCircuit(width) ==
    Bind(TriPins(width), LAMBDA t :
        build(<<NewPartOp("tristate", width)>>
              \o [i \in 1 .. width |-> NewPinOp(Output("Low"))]
              \o [i \in 1 .. width |-> ConnectOp(t.inputs[i], t.input[i])]
              \o <<NewPinOp(Output("Low")), ConnectOp(t.enable, t.en)>>))

TriInit == \E width \in 1 .. MaxTriWidth : Built(TriCircuit(width))

\* The pins of the circuit the state holds.
Tri == TriPins(parts[1].width)

\* Graph::set_output(pin, signal) on pin p, before the first run() or right
\* after a run() has returned.
TriSet(p, s) == (phase = "built" \/ pc = "done") /\ RamSet(p, s)

\* run() is called, and the pins inputs and enable are set to any signal.
TriNext ==
    \/ RunBegin
    \/ RunLoop
    \/ \E s \in Signal : TriSet(Tri.enable, s)
    \/ \E i \in 1 .. parts[1].width, s \in Signal : TriSet(Tri.inputs[i], s)

SpecTri == TriInit /\ [][TriNext]_vars

\* ---------------------------------------------------------------------- C31
\* C31: in every steady state run() has reached, the outputs of the
\* tristate are Output(s) for the signal s of input i if en is High and all
\* HiZ if en is Low, Off or Error; before the first tick they are HiZ.
C31_TristateFollowsEn ==
    /\ (pc = "done" /\ stop = "steady") =>
          \A i \in DOMAIN Tri.output :
              pin_states[Tri.output[i]] =
                  IF sig(pin_states[Tri.en]) = "High"
                  THEN Output(sig(pin_states[Tri.input[i]]))
                  ELSE HiZ
    /\ phase = "built" =>
          \A i \in DOMAIN Tri.output : pin_states[Tri.output[i]] = HiZ

\* en is back from High to Low, run() has returned and the outputs of a
\* tristate of width 2, which had followed a High input, are HiZ.
C31_Witness ==
    /\ pc = "done" /\ stop = "steady" /\ phase = "later"
    /\ parts[1].width = 2
    /\ pin_states[Tri.enable] = Output("Low")
    /\ pin_states[Tri.en] = Input("Low")
    /\ pin_states[Tri.input[2]] = Input("High")
    /\ nodes[pin_nodes[Tri.output[1]]].signal = "Low"
    /\ \A i \in DOMAIN Tri.output : pin_states[Tri.output[i]] = HiZ

\* ------------------------------------------------ the signal operations
\* The operations of lib.rs applied to signals: the state holds three
\* operands as the signals of three pin states; a binary operation is
\* applied to the first two, in both orders of its arguments, and not is
\* applied to the third. pc names the operation applied and the results
\* follow the operands in pin_states.
SigInit ==
    /\ \E a \in Signal, b \in Signal, c \in Signal :
         pin_states = <<Output(a), Output(b), Output(c)>>
    /\ nodes = [n \in {} |-> NewNode(0)]
    /\ next_node = 0
    /\ pin_nodes = <<>>
    /\ parts = <<>>
    /\ pc = "idle"
    /\ stats = NoStats
    /\ state_hashes = NoHashes
    /\ stop = "none"
    /\ phase = "built"
    /\ pulse = NoPulse

\* self & rhs, self | rhs, self ^ rhs
binary_op(op, self, rhs) ==
    CASE op = "and" -> bitand(self, rhs)
      [] op = "or" -> bitor(self, rhs)
      [] op = "xor" -> bitxor(self, rhs)

SigBinary(op) ==
    /\ pc = "idle"
    /\ pc' = op
    /\ pin_states' = pin_states
          \o <<Output(binary_op(op, sig(pin_states[1]), sig(pin_states[2]))),
               Output(binary_op(op, sig(pin_states[2]), sig(pin_states[1])))>>
    /\ UNCHANGED <<nodes, next_node, pin_nodes, parts, stats, state_hashes,
                   stop, phase, pulse>>

SigNot ==
    /\ pc = "idle"
    /\ pc' = "not"
    /\ pin_states' = pin_states \o <<Output(not(sig(pin_states[3])))>>
    /\ UNCHANGED <<nodes, next_node, pin_nodes, parts, stats, state_hashes,
                   stop, phase, pulse>>

SigNext ==
    \/ SigBinary("and")
    \/ SigBinary("or")
    \/ SigBinary("xor")
    \/ SigNot

SpecSignal == SigInit /\ [][SigNext]_vars

\* The operands and the results in the state.
SigA == sig(pin_states[1])

SigB == sig(pin_states[2])

SigC == sig(pin_states[3])

SigResult == pin_states[4]

SigSwapped == pin_states[5]

\* ---------------------------------------------------------------------- C32
\* C32: and, or and xor give a signal for every pair of signals, the same
\* for both orders of the pair, and Error whenever an operand is Error; not
\* Error is Error.
C32_BinaryOpsCommuteErrorAbsorbs ==
    /\ pc \in {"and", "or", "xor"} =>
          /\ SigResult \in {Output(s) : s \in Signal}
          /\ SigResult = SigSwapped
          /\ "Error" \in {SigA, SigB} => SigResult = Output("Error")
    /\ (pc = "not" /\ SigC = "Error") => SigResult = Output("Error")

\* or has been applied to Off and High, and has given High.
C32_Witness ==
    /\ pc = "or" /\ SigA = "Off" /\ SigB = "High"
    /\ SigResult = Output("High") /\ SigSwapped = Output("High")

\* ---------------------------------------------------------------------- C33
\* C33 as stated: xor gives Error if an operand is Error, else Off for Off
\* and Off, else High exactly when one operand is High and the other Low,
\* else Low (so Low for High and Off).
C33_XorHighOnlyWithLow ==
    pc = "xor" =>
        SigResult = Output(
            IF "Error" \in {SigA, SigB} THEN "Error"
            ELSE IF SigA = "Off" /\ SigB = "Off" THEN "Off"
            ELSE IF {SigA, SigB} = {"High", "Low"} THEN "High"
            ELSE "Low")

\* C33, amended: xor gives Error if an operand is Error, else Off for Off
\* and Off, else High exactly when one operand is High and the other is Low
\* or Off, else Low (Low for Low and Off, Low and Low, High and High).
C33_XorOffCountsAsLow ==
    pc = "xor" =>
        SigResult = Output(
            IF "Error" \in {SigA, SigB} THEN "Error"
            ELSE IF SigA = "Off" /\ SigB = "Off" THEN "Off"
            ELSE IF "High" \in {SigA, SigB} /\ SigA # SigB THEN "High"
            ELSE "Low")

\* xor has been applied to High and Off, and has given High.
C33_Witness ==
    /\ pc = "xor" /\ SigA = "High" /\ SigB = "Off"
    /\ SigResult = Output("High")

\* ---------------------------------------------------------------------- C34
\* C34: when run() stops on a repeated global state, stats.cycle is the
\* number of ticks between the two occurrences of that state: the tick
\* count at the second less the tick count recorded with the first.
C34_CycleIsPeriod ==
    [][ (pc = "run" /\ pc' = "done" /\ stop' = "cycle") =>
            stats'.cycle =
                stats'.ticks - state_hashes[StateHash(pin_states', nodes')]
      ]_vars

\* ------------------------------------------- the 74193 holding a loaded value
\* The circuit of test_load, its data pins changed after the circuit has
\* been run: Up and Down stay High, a change of Clear or LoadInv is followed
\* by run() at once, and the data pins are set to another value before the
\* next run().
HoldInit == \E v \in CountIn : Built(LoadCircuit(v))

\* set_output(pin, signal) on a control pin, then run().
HoldSetRun(p, s) ==
    /\ pc = "done"
    /\ pin_states[p] # Output(s)
    /\ \E r \in {Graph_run(set_output(Graph, p, s).g)} :
         /\ SetGraph(r.g)
         /\ pc' = IF r.stop = "none" THEN "run" ELSE "done"
         /\ stats' = r.stats
         /\ stop' = r.stop
    /\ state_hashes' = NoHashes
    /\ phase' = "later"
    /\ pulse' = NoPulse

\* set_output(pin, signal) on each of the four data pins, after a run():
\* they put out the bits of w.
HoldValues == {0, 5, 10, 15}

HoldSetData(w) ==
    /\ pc = "done"
    /\ LoadIn # new_val(w)
    /\ pin_states' = [p \in DOMAIN pin_states |->
                        IF p <= 4 THEN Bits(w, 4)[p] ELSE pin_states[p]]
    /\ Forget("idle")
    /\ Touch
    /\ UNCHANGED <<nodes, next_node, pin_nodes, parts>>

HoldNext ==
    \/ RunAll
    \/ \E s \in {"Low", "High"} : HoldSetRun(LoadPins.clear, s)
    \/ \E s \in {"Low", "High"} : HoldSetRun(LoadPins.load_inv, s)
    \/ \E w \in HoldValues : HoldSetData(w)

SpecHold == HoldInit /\ [][HoldNext]_vars

\* ---------------------------------------------------------------------- C35
\* C35: with LoadInv High, Clear Low and Up and Down held High, a run()
\* made after the data pins were set to another value leaves the outputs
\* Q1..Q4 as they were.
C35_InputsNotLoopedThrough ==
    [][ (/\ pc = "idle" /\ phase # "built" /\ pc' = "done"
         /\ PinIs(LoadPins.load_inv, "High") /\ PinIs(LoadPins.clear, "Low"))
            => LoadQ' = LoadQ
      ]_vars

C35_Witness ==
    /\ pc = "done" /\ stop = "steady" /\ phase = "later"
    /\ PinIs(LoadPins.load_inv, "High") /\ PinIs(LoadPins.clear, "Low")
    /\ LoadQ = new_val(5) /\ LoadIn = new_val(10)

\* ------------------------------------------------- the bus of the DataBlock
\* The pins of the part of DataBlock::new around the data bus, in the order
\* of their creation: the RAM, the bus buffer, the register interface,
\* the data inputs and the outputs of the register (plain pins stand for
\* the Counter8Bit), the eight control inputs, the LOW pin, the gates of
\* reg_not_ram and ram_we, and the output pins a program connects to reset,
\* data_count_en and store_clock.
BlockPins ==
    LET bus == NUM_PINS
        tri == bus + 2 * WORD_SIZE
        reg == tri + 2 * WORD_SIZE + 1
        ctl == reg + 2 * WORD_SIZE
        low == ctl + 9
    IN [ram |-> RamPins.ram,
        bus |-> [output |-> [i \in 1 .. WORD_SIZE |-> bus + i],
                 input |-> [i \in 1 .. WORD_SIZE |-> bus + WORD_SIZE + i]],
        reg_interface |->
                [output |-> [i \in 1 .. WORD_SIZE |-> tri + i],
                 input |-> [i \in 1 .. WORD_SIZE |-> tri + WORD_SIZE + i],
                 en |-> tri + 2 * WORD_SIZE + 1],
        reg |-> [input |-> [i \in 1 .. WORD_SIZE |-> reg + i],
                 output |-> [i \in 1 .. WORD_SIZE |-> reg + WORD_SIZE + i]],
        up |-> ctl + 1, down |-> ctl + 2, count |-> ctl + 3, store |-> ctl + 4,
        clear |-> ctl + 5, p_ce |-> ctl + 6, d_ce |-> ctl + 7, reset |-> ctl + 8,
        low |-> low,
        reg_not_ram |-> Pin_bitor(low, ctl + 8, ctl + 7),
        ram_we |-> [input_a |-> low + 4, input_b |-> low + 5, output |-> low + 6],
        write |-> Pin_bitand(low + 6, ctl + 4, ctl + 7),
        drive |-> [reset |-> low + 10, d_ce |-> low + 11, store |-> low + 12]]

\* DataBlock::new without the counters and their clock gates: the outputs
\* of the register put out the byte v, and reset, data_count_en and
\* store_clock are driven by the signals r, e and s.
BlockCircuit(v, r, e, s) ==
    Bind(BlockPins, LAMBDA b :
        build(<<NewRamOp, NewPartOp("bus_buffer", WORD_SIZE),
                NewPartOp("tristate", WORD_SIZE)>>
              \o [i \in 1 .. WORD_SIZE |-> NewPinOp(INPUT)]
              \o [i \in 1 .. WORD_SIZE |-> NewPinOp(Bits(v, WORD_SIZE)[i])]
              \o connect_all(<<b.bus.input[1], b.ram.io[1], b.reg.input[1],
                               b.reg_interface.output[1]>>)
              \o <<ConnectOp(b.reg.output[1], b.reg_interface.input[1])>>
              \o connect_all(<<b.bus.input[2], b.ram.io[2], b.reg.input[2],
                               b.reg_interface.output[2]>>)
              \o <<ConnectOp(b.reg.output[2], b.reg_interface.input[2])>>
              \o connect_all(<<b.bus.input[3], b.ram.io[3], b.reg.input[3],
                               b.reg_interface.output[3]>>)
              \o <<ConnectOp(b.reg.output[3], b.reg_interface.input[3])>>
              \o connect_all(<<b.bus.input[4], b.ram.io[4], b.reg.input[4],
                               b.reg_interface.output[4]>>)
              \o <<ConnectOp(b.reg.output[4], b.reg_interface.input[4])>>
              \o connect_all(<<b.bus.input[5], b.ram.io[5], b.reg.input[5],
                               b.reg_interface.output[5]>>)
              \o <<ConnectOp(b.reg.output[5], b.reg_interface.input[5])>>
              \o connect_all(<<b.bus.input[6], b.ram.io[6], b.reg.input[6],
                               b.reg_interface.output[6]>>)
              \o <<ConnectOp(b.reg.output[6], b.reg_interface.input[6])>>
              \o connect_all(<<b.bus.input[7], b.ram.io[7], b.reg.input[7],
                               b.reg_interface.output[7]>>)
              \o <<ConnectOp(b.reg.output[7], b.reg_interface.input[7])>>
              \o connect_all(<<b.bus.input[8], b.ram.io[8], b.reg.input[8],
                               b.reg_interface.output[8]>>)
              \o <<ConnectOp(b.reg.output[8], b.reg_interface.input[8])>>
              \o [i \in 1 .. 8 |-> NewPinOp(INPUT)]
              \o <<NewPinOp(Output("Low")), ConnectOp(b.low, b.ram.ce_inv)>>
              \o b.reg_not_ram.ops
              \o connect_all(<<b.reg_not_ram.out, b.reg_interface.en,
                               b.ram.oe_inv>>)
              \o <<NewPartOp("nor", 1)>>
              \o b.write.ops
              \o <<ConnectOp(b.reset, b.ram_we.input_a),
                   ConnectOp(b.write.out, b.ram_we.input_b),
                   ConnectOp(b.ram_we.output, b.ram.we_inv),
                   NewPinOp(Output(r)), NewPinOp(Output(e)), NewPinOp(Output(s)),
                   ConnectOp(b.drive.reset, b.reset),
                   ConnectOp(b.drive.d_ce, b.d_ce),
                   ConnectOp(b.drive.store, b.store)>>))

BlockInit ==
    \E r \in Signal, e \in Signal : Built(BlockCircuit(0, r, e, "Low"))

\* set_output on each of the outputs of the register: they put out the
\* byte v.
BlockSetReg(v) ==
    /\ phase = "built" \/ pc = "done"
    /\ Reading(BlockPins.reg.output) # new_val(v)
    /\ pin_states' = [p \in DOMAIN pin_states |->
                        IF p > BlockPins.reg.input[WORD_SIZE]
                           /\ p <= BlockPins.reg.output[WORD_SIZE]
                        THEN Bits(v, WORD_SIZE)[p - BlockPins.reg.input[WORD_SIZE]]
                        ELSE pin_states[p]]
    /\ Forget("idle")
    /\ Touch
    /\ UNCHANGED <<nodes, next_node, pin_nodes, parts>>

\* Between runs the program sets reset and data_count_en to any signal, the
\* store clock to Low or High and the register to a byte.
BlockNext ==
    \/ RunBegin
    \/ RamRunLoop
    \/ \E s \in Signal : TriSet(BlockPins.drive.reset, s)
    \/ \E s \in Signal : TriSet(BlockPins.drive.d_ce, s)
    \/ \E s \in {"Low", "High"} : TriSet(BlockPins.drive.store, s)
    \/ \E v \in RamData : BlockSetReg(v)

SpecBlock == BlockInit /\ [][BlockNext]_vars

\* ---------------------------------------------------------------------- C36
\* The states of the outputs of the register interface.
BlockRegOut ==
    [i \in 1 .. WORD_SIZE |-> pin_states[BlockPins.reg_interface.output[i]]]

\* C36: after the part phase of every tick (the node phase that ends the
\* tick writes Input pins only), and before the first, no bit of the data
\* bus has both the IO pin of the RAM and the output of the register
\* interface in Output state, whatever signal reg_not_ram carries.
C36_RamAndRegNeverBothDrive ==
    \A i \in 1 .. WORD_SIZE :
        ~(RamIO[i].k = "Output" /\ BlockRegOut[i].k = "Output")

C36_Witness ==
    /\ pc = "done"
    /\ PinIs(BlockPins.drive.reset, "Off") /\ PinIs(BlockPins.drive.d_ce, "High")
    /\ \A i \in 1 .. WORD_SIZE :
         RamIO[i].k = "Input" /\ BlockRegOut[i].k = "Output"

\* ------------------------------------------ the T flip-flop on any signals
\* A T flip-flop and three output pins connected to Toggle, Set and Reset.
FfPins ==
    [toggle |-> TOGGLE + 1, set |-> SET + 1, reset |-> RESET + 1,
     output |-> OUTPUT_Q + 1, out_inv |-> OUT_INV + 1,
     t |-> TOGGLE_PREV + 2, s |-> TOGGLE_PREV + 3, r |-> TOGGLE_PREV + 4]

FfCircuit(t, s, r) ==
    build(<<NewPartOp("tff", 1), NewPinOp(Output(t)), NewPinOp(Output(s)),
            NewPinOp(Output(r)),
            ConnectOp(FfPins.t, FfPins.toggle), ConnectOp(FfPins.s, FfPins.set),
            ConnectOp(FfPins.r, FfPins.reset)>>)

FfInit == \E t \in Signal, s \in Signal, r \in Signal : Built(FfCircuit(t, s, r))

\* run() is called, and between runs the three pins are set to any signal.
FfNext ==
    \/ RunBegin
    \/ RunLoop
    \/ \E x \in Signal : TriSet(FfPins.t, x)
    \/ \E x \in Signal : TriSet(FfPins.s, x)
    \/ \E x \in Signal : TriSet(FfPins.r, x)

SpecFf == FfInit /\ [][FfNext]_vars

\* ---------------------------------------------------------------------- C38
FfQ == sig(pin_states[FfPins.output])

\* C38: in every state of the flip-flop, whatever signals Toggle, Set and
\* Reset carry, Q is Low or High and the inverted output is not Q.
C38_QIsLowOrHighAndInvIsNotQ ==
    /\ pin_states[FfPins.output] \in {Output("Low"), Output("High")}
    /\ pin_states[FfPins.out_inv] = Output(not(FfQ))

C38_Witness ==
    /\ pc = "done"
    /\ PinIs(FfPins.t, "Error") /\ PinIs(FfPins.s, "Off") /\ PinIs(FfPins.r, "Low")
    /\ pin_states[FfPins.toggle] = Input("Error")
    /\ FfQ = "High" /\ pin_states[FfPins.out_inv] = Output("Low")

\* --------------------------------------------- a pin connected after a run
\* An output pin a alone in its node is run; then input pins are made one
\* at a time, each connected to a as connect(a, b) or connect(b, a) with
\* run() called at once, and a is set to any signal with run() called at
\* once.
MaxOrderPins == 4

OrderA == 1

OrderInit == \E s \in Signal : Built(build(<<NewPinOp(Output(s))>>))

\* The earlier run() that resolves the node of a.
OrderFirstRun == phase = "built" /\ RunAll

\* Graph::new_input after a run().
OrderNewInput ==
    /\ pc = "done"
    /\ Len(pin_states) < MaxOrderPins
    /\ SetGraph(new_pin(Graph, INPUT))
    /\ Forget("idle")
    /\ Touch

\* Graph::connect(x, y) on a and the new input pin, in the order given,
\* then run().
OrderConnectRun(x, y) ==
    /\ pc = "idle" /\ phase # "built"
    /\ \E r \in {Graph_run(Graph_connect(Graph, x, y).g)} :
         /\ SetGraph(r.g)
         /\ pc' = IF r.stop = "none" THEN "run" ELSE "done"
         /\ stats' = r.stats
         /\ stop' = r.stop
    /\ state_hashes' = NoHashes
    /\ phase' = "later"
    /\ pulse' = NoPulse

OrderNext ==
    \/ OrderFirstRun
    \/ OrderNewInput
    \/ OrderConnectRun(OrderA, Len(pin_states))
    \/ OrderConnectRun(Len(pin_states), OrderA)
    \/ \E s \in Signal : HoldSetRun(OrderA, s)

SpecOrder == OrderInit /\ [][OrderNext]_vars

\* ---------------------------------------------------------------------- C39
\* C39: when the node of the output pin a has been resolved by a run() and
\* a new input pin b is connected to it, as connect(a, b) or as
\* connect(b, a), the run() that follows leaves get_signal(b) equal to the
\* signal a puts out.
C39_ConnectOrderNotObserved ==
    [][ (pc = "idle" /\ phase # "built" /\ pc' = "done") =>
            sig(pin_states'[Len(pin_states)]) = sig(pin_states'[OrderA])
      ]_vars

\* ---------------------------------------- tick() and run() after a run()
\* Graph::run() on a graph with RAM parts, as one operation, from the tick
\* count, updates and fingerprints so far.
RECURSIVE ram_run_loop(_, _, _, _, _)
ram_run_loop(ps, ns, pts, st, hashes) ==
    IF st.ticks >= MaxTicks
    THEN [pin_states |-> ps, nodes |-> ns, parts |-> pts, stats |-> st,
          stop |-> "none", panic |-> "none"]
    ELSE Bind(ram_tick(ps, ns, pts), LAMBDA r :
        LET n == r.update_count
            ticks == st.ticks + 1
            hash == StateHash(r.pin_states, r.nodes)
            here == [pin_states |-> r.pin_states, nodes |-> r.nodes,
                     parts |-> r.parts, panic |-> r.panic]
        IN IF r.panic # "none"
           THEN here @@ [stats |-> st, stop |-> "none"]
           ELSE IF n = 0
           THEN here @@ [stats |-> st, stop |-> "steady"]
           ELSE IF hash \in DOMAIN hashes
           THEN here @@ [stats |-> [ticks |-> ticks, updates |-> st.updates + n,
                                    cycle |-> CycleLength(ticks, hashes[hash])],
                         stop |-> "cycle"]
           ELSE ram_run_loop(r.pin_states, r.nodes, r.parts,
                             [ticks |-> ticks, updates |-> st.updates + n,
                              cycle |-> 0],
                             [h \in DOMAIN hashes \cup {hash} |->
                                 IF h = hash THEN ticks ELSE hashes[h]]))

\* Graph::tick() called right after a run() has returned: stats.updates
\* holds the count it returns.
FixTick ==
    /\ pc = "done"
    /\ \E r \in {ram_tick(pin_states, nodes, parts)} :
         /\ pin_states' = r.pin_states
         /\ nodes' = r.nodes
         /\ parts' = r.parts
         /\ pc' = IF r.panic # "none" THEN "update_panic" ELSE "ticked"
         /\ stats' = [NoStats EXCEPT !.updates = r.update_count]
    /\ stop' = "none"
    /\ UNCHANGED <<next_node, pin_nodes, state_hashes, phase, pulse>>

\* Graph::run(), the whole call, made right after a run() has returned.
FixRerun ==
    /\ pc = "done"
    /\ \E r \in {ram_run_loop(pin_states, nodes, parts, RunStatsInit, NoHashes)} :
         /\ pin_states' = r.pin_states
         /\ nodes' = r.nodes
         /\ parts' = r.parts
         /\ pc' = IF r.panic # "none" THEN "update_panic"
                  ELSE IF r.stop = "none" THEN "run" ELSE "done"
         /\ stats' = r.stats
         /\ stop' = r.stop
    /\ UNCHANGED <<next_node, pin_nodes, state_hashes, phase, pulse>>

\* The bus of the DataBlock, with a tick() or a second run() after a run().
FixNext == BlockNext \/ FixTick \/ FixRerun

SpecFix == BlockInit /\ [][FixNext]_vars

\* ---------------------------------------------------------------------- C37
\* C37: when run() has returned with cycle 0, a tick() made at once returns
\* 0 and a run() made at once returns ticks 1, updates 0 and cycle 0, and
\* either leaves the pin states, the node signals and the vector of the RAM
\* as they were.
C37_SteadyIsFixedPoint ==
    [][ (pc = "done" /\ stats.cycle = 0 /\ pc' \in {"ticked", "done"}) =>
          /\ UNCHANGED <<pin_states, nodes, parts>>
          /\ pc' = "ticked" => stats'.updates = 0
          /\ pc' = "done" => stats' = [ticks |-> 1, updates |-> 0, cycle |-> 0]
      ]_vars

C37_Witness ==
    /\ pc = "ticked" /\ stats.updates = 0
    /\ RamOf # NewRam
    /\ PinIs(BlockPins.drive.d_ce, "High")
    /\ \A i \in 1 .. WORD_SIZE : BlockRegOut[i].k = "Output"

====
